---- MODULE Spec2Model ----
(***************************************************************************)
(* Model of the TDX .day ingestion pipeline of stock-dude:                 *)
(*   src/src/convert_tdx_to_json.ts  (readDayFile, convertAllDayFiles)     *)
(*   src/test/convert_tdx_to_json.test.ts (createTestDayFile, the encoder) *)
(*                                                                         *)
(* A JavaScript number is modelled as a reduced fraction <<n, d>>:         *)
(*   d > 0  a finite value n/d,  <<1,0>> / <<-1,0>>  +Infinity/-Infinity,  *)
(*   <<0,0>> NaN.  JSON null is the separate value <<0,-1>>.               *)
(* Arithmetic is exact; IEEE rounding error and the sign of zero are not   *)
(* represented.                                                            *)
(* A string is a sequence of one-character strings.                        *)
(***************************************************************************)
EXTENDS Integers, Sequences, FiniteSets, TLC

\* ------------------------------------------------------------------------
\* Bounds of the model
\* ------------------------------------------------------------------------
MaxRecs == 2
MaxFiles == 2
MaxReadRecs == 3
MaxEvents == 2
MaxOrderRecs == 2
MaxSeedRecs == 1

\* bars that follow the quiet start of a backtested series
MaxTail == 5

\* bars that a series offered to the selection has beyond 249
MaxBeyond == 1

\* source files of a run whose passes are followed one by one
MaxBatch == 2

\* bars that follow the quiet start of a series offered to the selection
MaxLastBars == 3

\* ------------------------------------------------------------------------
\* JavaScript numbers
\* ------------------------------------------------------------------------
Abs(x) == IF x < 0 THEN -x ELSE x

Sign(x) == IF x < 0 THEN -1 ELSE IF x > 0 THEN 1 ELSE 0

Min(a, b) == IF a < b THEN a ELSE b

Max(a, b) == IF a > b THEN a ELSE b

RECURSIVE GCD(_, _)
GCD(a, b) == IF b = 0 THEN a ELSE GCD(b, a % b)

NaN == <<0, 0>>

Infinity == <<1, 0>>

null == <<0, -1>>

\* the number n/d (d = 0 gives Infinity, -Infinity or NaN as in x / 0)
Num(n, d) ==
    IF d = 0 THEN <<Sign(n), 0>>
    ELSE LET g == GCD(Abs(n), Abs(d))
             s == IF d < 0 THEN -1 ELSE 1
         IN  <<(s * n) \div g, (s * d) \div g>>

Int2Num(n) == <<n, 1>>

IsFinite(x) == x[2] > 0

IsNaN(x) == x = NaN

\* a * b
Mul(a, b) ==
    IF IsFinite(a) /\ IsFinite(b)
    THEN LET g1 == GCD(Abs(a[1]), b[2])
             g2 == GCD(Abs(b[1]), a[2])
         IN  Num((a[1] \div g1) * (b[1] \div g2), (a[2] \div g2) * (b[2] \div g1))
    ELSE Num(a[1] * b[1], 0)

\* 1 / b
Inv(b) == IF b[1] < 0 THEN <<-b[2], -b[1]>> ELSE <<b[2], b[1]>>

\* a / b
Div(a, b) == Mul(a, Inv(b))

\* a + b
Add(a, b) ==
    IF IsFinite(a) /\ IsFinite(b)
    THEN LET g == GCD(a[2], b[2])
         IN  Num(a[1] * (b[2] \div g) + b[1] * (a[2] \div g), (a[2] \div g) * b[2])
    ELSE IF IsNaN(a) \/ IsNaN(b) THEN NaN
    ELSE IF IsFinite(a) THEN b
    ELSE IF IsFinite(b) THEN a
    ELSE IF a = b THEN a ELSE NaN

\* a - b
Sub(a, b) == Add(a, <<-b[1], b[2]>>)

\* a > b  (false when either side is NaN)
Gt(a, b) ==
    IF IsNaN(a) \/ IsNaN(b) THEN FALSE
    ELSE IF IsFinite(a) /\ IsFinite(b)
         THEN LET g == GCD(a[2], b[2])
              IN  a[1] * (b[2] \div g) > b[1] * (a[2] \div g)
    ELSE IF IsFinite(a) THEN b[1] < 0
    ELSE IF IsFinite(b) THEN a[1] > 0
    ELSE a[1] > b[1]

\* x || 1 : 0 and NaN are falsy
OrOne(x) == IF x = NaN \/ x = <<0, 1>> THEN <<1, 1>> ELSE x

\* Math.round(x): nearest integer, ties towards +Infinity
MathRound(x) ==
    IF ~IsFinite(x) THEN x
    ELSE LET q == x[1] \div x[2]
             r == x[1] % x[2]
         IN  <<q + (IF 2 * r >= x[2] THEN 1 ELSE 0), 1>>

\* JSON.parse(JSON.stringify(x)) of a number: NaN and the infinities become null
JSONNumber(x) == IF x[2] = 0 THEN null ELSE x

\* ------------------------------------------------------------------------
\* Strings
\* ------------------------------------------------------------------------
Digit(k) == CASE k = 0 -> "0" [] k = 1 -> "1" [] k = 2 -> "2" [] k = 3 -> "3"
              [] k = 4 -> "4" [] k = 5 -> "5" [] k = 6 -> "6" [] k = 7 -> "7"
              [] k = 8 -> "8" [] k = 9 -> "9"

RECURSIVE Digits(_)
Digits(n) == IF n < 10 THEN <<Digit(n)>> ELSE Append(Digits(n \div 10), Digit(n % 10))

\* Number.prototype.toString() of an int32
NumberToString(n) ==
    IF n >= 0 THEN Digits(n)
    ELSE IF n = -2147483647 - 1
         THEN <<"-">> \o Digits(214748364) \o <<"8">>
         ELSE <<"-">> \o Digits(-n)

\* s.slice(a, b) for 0 <= a <= b
Slice(s, a, b) == SubSeq(s, Min(a, Len(s)) + 1, Min(b, Len(s)))

formatDate(raw) ==
    LET s == NumberToString(raw)
    IN  Slice(s, 0, 4) \o <<"-">> \o Slice(s, 4, 6) \o <<"-">> \o Slice(s, 6, 8)

\* collation rank of the characters a date string can hold
CharRank(c) == CASE c = "-" -> 0 [] c = "0" -> 1 [] c = "1" -> 2 [] c = "2" -> 3
                 [] c = "3" -> 4 [] c = "4" -> 5 [] c = "5" -> 6 [] c = "6" -> 7
                 [] c = "7" -> 8 [] c = "8" -> 9 [] c = "9" -> 10

\* a.localeCompare(b): negative, 0 or positive
RECURSIVE localeCompare(_, _)
localeCompare(a, b) ==
    IF a = <<>> /\ b = <<>> THEN 0
    ELSE IF a = <<>> THEN -1
    ELSE IF b = <<>> THEN 1
    ELSE IF CharRank(Head(a)) < CharRank(Head(b)) THEN -1
    ELSE IF CharRank(Head(a)) > CharRank(Head(b)) THEN 1
    ELSE localeCompare(Tail(a), Tail(b))

\* ------------------------------------------------------------------------
\* Buffers: sequences of bytes
\* ------------------------------------------------------------------------
recordSize == 32

\* the unsigned 31-bit part of a byte quadruple
U31(n) == <<n % 256, (n \div 256) % 256, (n \div 65536) % 256, (n \div 16777216) % 256>>

\* buf.writeInt32LE(v): four bytes, least significant first, two's complement
writeInt32LE(v) ==
    IF v >= 0 THEN U31(v)
    ELSE LET u == U31((v + 2147483647) + 1)
         IN  <<u[1], u[2], u[3], u[4] + 128>>

\* mutant of readInt32LE: the four bytes are read most significant first
readInt32BE(buf, offset) ==
    LET b0 == buf[offset + 4]
        b1 == buf[offset + 3]
        b2 == buf[offset + 2]
        b3 == buf[offset + 1]
    IN  IF b3 < 128
        THEN b0 + 256 * b1 + 65536 * b2 + 16777216 * b3
        ELSE ((b0 + 256 * b1 + 65536 * b2 + 16777216 * (b3 - 128)) - 2147483647) - 1

\* buf.readInt32LE(offset) for an offset with offset + 4 <= buf.length
readInt32LE(buf, offset) ==
    LET b0 == buf[offset + 1]
        b1 == buf[offset + 2]
        b2 == buf[offset + 3]
        b3 == buf[offset + 4]
    IN  IF b3 < 128
        THEN b0 + 256 * b1 + 65536 * b2 + 16777216 * b3
        ELSE ((b0 + 256 * b1 + 65536 * b2 + 16777216 * (b3 - 128)) - 2147483647) - 1

\* buf.readInt32LE(offset) throws ERR_OUT_OF_RANGE
readThrows(buf, offset) == offset + 4 > Len(buf)

\* writeDay of the test's createTestDayFile: seven int32 fields and four
\* bytes that Buffer.alloc left zero.  r = <<date, open, high, low, close,
\* amount, volume>>, the prices and the amount already multiplied by 100.
writeDay(r) ==
    writeInt32LE(r[1]) \o writeInt32LE(r[2]) \o writeInt32LE(r[3]) \o writeInt32LE(r[4])
    \o writeInt32LE(r[5]) \o writeInt32LE(r[6]) \o writeInt32LE(r[7]) \o <<0, 0, 0, 0>>

\* the encoded records recs[a..b], one after the other
RECURSIVE writeDays(_, _, _)
writeDays(recs, a, b) ==
    IF a > b THEN <<>>
    ELSE IF a = b THEN writeDay(recs[a])
    ELSE LET mid == (a + b) \div 2
         IN  writeDays(recs, a, mid) \o writeDays(recs, mid + 1, b)

createTestDayFile(recs) == writeDays(recs, 1, Len(recs))

\* the bytes of a source file: the encoded records, the last trunc bytes missing
BufOf(file) ==
    LET whole == createTestDayFile(file.recs)
    IN  SubSeq(whole, 1, Len(whole) - file.trunc)

\* ------------------------------------------------------------------------
\* readDayFile
\* ------------------------------------------------------------------------
\* the for loop over the buffer (one pass per started 32-byte chunk): a
\* read past the end of the buffer throws out of readDayFile
decodeThrows(buf) ==
    \E k \in 0 .. ((Len(buf) + recordSize - 1) \div recordSize) - 1 :
        \E f \in 0 .. 6 : readThrows(buf, k * recordSize + 4 * f)

Hundred == 100

decodeRecord(buf, offset) ==
    [date     |-> formatDate(readInt32LE(buf, offset)),
     open     |-> Num(readInt32LE(buf, offset + 4), Hundred),
     high     |-> Num(readInt32LE(buf, offset + 8), Hundred),
     low      |-> Num(readInt32LE(buf, offset + 12), Hundred),
     close    |-> Num(readInt32LE(buf, offset + 16), Hundred),
     turnover |-> Num(readInt32LE(buf, offset + 20), Hundred),
     volume   |-> readInt32LE(buf, offset + 24)]

\* the records pushed by the loop when no read throws
decodeRecords(buf) ==
    [k \in 1 .. ((Len(buf) + recordSize - 1) \div recordSize) |->
        decodeRecord(buf, (k - 1) * recordSize)] \o <<>>

\* dividendArr.filter(d => d.code === code)
RECURSIVE filterByCode(_, _)
filterByCode(dividendArr, code) ==
    IF dividendArr = <<>> THEN <<>>
    ELSE IF Head(dividendArr).code = code
         THEN <<Head(dividendArr)>> \o filterByCode(Tail(dividendArr), code)
         ELSE filterByCode(Tail(dividendArr), code)

\* dividendMap.get(date) is not undefined
dividendMapHas(dividends, date) == \E k \in 1 .. Len(dividends) : dividends[k].date = date

\* a map that kept the first entry of a key
dividendMapGetFirst(dividends, date) ==
    dividends[CHOOSE k \in 1 .. Len(dividends) :
                 /\ dividends[k].date = date
                 /\ \A m \in 1 .. k - 1 : dividends[m].date # date]

\* dividendMap.get(date): new Map(entries) keeps the last entry of a key
dividendMapGet(dividends, date) ==
    dividends[CHOOSE k \in 1 .. Len(dividends) :
                 /\ dividends[k].date = date
                 /\ \A m \in k + 1 .. Len(dividends) : dividends[m].date # date]

Ten == <<10, 1>>

One == <<1, 1>>

\* mutant of qfqRatio: the cash per 10 shares is taken as cash per share
qfqRatioCashPerShare(div, close) ==
    LET bonusRatio    == Div(div.bonus, Ten)
        dispatchRatio == Div(div.dispatch, Ten)
        splitRatio    == OrOne(div.splite)
        cash          == div.cash
        price         == div.price
        adjustedClose == Div(close, splitRatio)
        equityBefore  == One
        equityAfter   == Add(Add(One, bonusRatio), dispatchRatio)
        totalValue    == Add(Mul(adjustedClose, equityBefore), Mul(price, dispatchRatio))
        newPrice      == Div(Sub(totalValue, cash), equityAfter)
    IN  Div(adjustedClose, newPrice)

\* the ratio an event contributes to the qfq factor, given the close of its bar
qfqRatio(div, close) ==
    LET bonusRatio    == Div(div.bonus, Ten)
        dispatchRatio == Div(div.dispatch, Ten)
        splitRatio    == OrOne(div.splite)
        cash          == Div(div.cash, Ten)
        price         == div.price
        adjustedClose == Div(close, splitRatio)
        equityBefore  == One
        equityAfter   == Add(Add(One, bonusRatio), dispatchRatio)
        totalValue    == Add(Mul(adjustedClose, equityBefore), Mul(price, dispatchRatio))
        newPrice      == Div(Sub(totalValue, cash), equityAfter)
    IN  Div(adjustedClose, newPrice)

\* the backward loop of qfq from 1-based index i down to 1: factorMap at its end
RECURSIVE qfqFactorMap(_, _, _, _, _)
qfqFactorMap(records, dividends, i, factor, factorMap) ==
    IF i = 0 THEN factorMap
    ELSE LET fm == (records[i].date :> factor) @@ factorMap
             nf == IF dividendMapHas(dividends, records[i].date) /\ i > 1
                   THEN Mul(factor, qfqRatio(dividendMapGet(dividends, records[i].date),
                                             records[i].close))
                   ELSE factor
         IN  qfqFactorMap(records, dividends, i - 1, nf, fm)

\* mutant of hfqRatio: the ratio is taken the other way round
hfqRatioInverted(div, close) ==
    LET cash == Div(div.cash, Ten)
    IN  Div(close, Add(close, cash))

\* the ratio an event contributes to the hfq factor, given the close of its bar
hfqRatio(div, close) ==
    LET cash == Div(div.cash, Ten)
    IN  Div(Add(close, cash), close)

\* mutant of hfqFactorMap: the factor of a bar is stored before its event is applied
RECURSIVE hfqFactorMapStoredFirst(_, _, _, _, _)
hfqFactorMapStoredFirst(records, dividends, i, factor, factorMap) ==
    IF i > Len(records) THEN factorMap
    ELSE LET nf == IF dividendMapHas(dividends, records[i].date)
                   THEN Mul(factor, hfqRatio(dividendMapGet(dividends, records[i].date),
                                             records[i].close))
                   ELSE factor
         IN  hfqFactorMapStoredFirst(records, dividends, i + 1, nf,
                                     (records[i].date :> factor) @@ factorMap)

\* the forward loop of hfq from 1-based index i up to the end: factorMap at its end
RECURSIVE hfqFactorMap(_, _, _, _, _)
hfqFactorMap(records, dividends, i, factor, factorMap) ==
    IF i > Len(records) THEN factorMap
    ELSE LET nf == IF dividendMapHas(dividends, records[i].date)
                   THEN Mul(factor, hfqRatio(dividendMapGet(dividends, records[i].date),
                                             records[i].close))
                   ELSE factor
         IN  hfqFactorMap(records, dividends, i + 1, nf, (records[i].date :> nf) @@ factorMap)

roundToPenny(num) == Div(MathRound(Mul(num, Int2Num(Hundred))), Int2Num(Hundred))

\* one record with its five money fields multiplied by f and rounded
scaleRecord(rec, f) ==
    [rec EXCEPT !.open     = roundToPenny(Mul(rec.open, f)),
                !.high     = roundToPenny(Mul(rec.high, f)),
                !.low      = roundToPenny(Mul(rec.low, f)),
                !.close    = roundToPenny(Mul(rec.close, f)),
                !.turnover = roundToPenny(Mul(rec.turnover, f))]

EmptyMap == [x \in {} |-> One]

\* mutant of applyQfq: the base factor is the one of the first record
applyQfqBaseFirst(records, dividends) ==
    LET factorMap  == qfqFactorMap(records, dividends, Len(records), One, EmptyMap)
        baseFactor == OrOne(factorMap[records[1].date])
    IN  [i \in 1 .. Len(records) |->
            scaleRecord(records[i], Div(baseFactor, OrOne(factorMap[records[i].date])))] \o <<>>

\* the qfq branch, for a non-empty records array
applyQfq(records, dividends) ==
    LET factorMap  == qfqFactorMap(records, dividends, Len(records), One, EmptyMap)
        baseFactor == OrOne(factorMap[records[Len(records)].date])
    IN  [i \in 1 .. Len(records) |->
            scaleRecord(records[i], Div(baseFactor, OrOne(factorMap[records[i].date])))] \o <<>>

\* the hfq branch
applyHfq(records, dividends) ==
    LET factorMap == hfqFactorMap(records, dividends, 1, One, EmptyMap)
    IN  [i \in 1 .. Len(records) |->
            scaleRecord(records[i], OrOne(factorMap[records[i].date]))] \o <<>>

\* the adjustment block is entered
adjustApplies(dividendArr, code, adjustType) ==
    adjustType # "none" /\ Len(dividendArr) > 0 /\ code # ""

\* records[records.length - 1] of an empty array is undefined: reading its
\* date throws a TypeError out of readDayFile
adjustThrows(records, dividendArr, code, adjustType) ==
    adjustApplies(dividendArr, code, adjustType) /\ adjustType = "qfq" /\ Len(records) = 0

\* mutant of adjustRecords: every type but qfq takes the hfq branch
adjustRecordsElseHfq(records, dividendArr, code, adjustType) ==
    IF ~(Len(dividendArr) > 0 /\ code # "") THEN records
    ELSE IF adjustType = "qfq" THEN applyQfq(records, filterByCode(dividendArr, code))
    ELSE applyHfq(records, filterByCode(dividendArr, code))

adjustRecords(records, dividendArr, code, adjustType) ==
    IF ~adjustApplies(dividendArr, code, adjustType) THEN records
    ELSE IF adjustType = "qfq" THEN applyQfq(records, filterByCode(dividendArr, code))
    ELSE IF adjustType = "hfq" THEN applyHfq(records, filterByCode(dividendArr, code))
    ELSE records

\* ------------------------------------------------------------------------
\* readDayFile: the indicator passes
\* ------------------------------------------------------------------------
\* the element of a one-element set: a loop over a..b is computed by halves,
\* and the state left by the first half is bound before the second half runs
Only(S) == CHOOSE x \in S : TRUE

CostWindow == 60

ChipWindow == 90

\* sum of records[j].turnover for j in a..b
RECURSIVE sumTurnover(_, _, _)
sumTurnover(records, a, b) ==
    IF a > b THEN <<0, 1>>
    ELSE IF a = b THEN Add(<<0, 1>>, records[b].turnover)
    ELSE LET mid == (a + b) \div 2
         IN  Add(sumTurnover(records, a, mid), sumTurnover(records, mid + 1, b))

\* sum of records[j].volume for j in a..b
RECURSIVE sumVolume(_, _, _)
sumVolume(records, a, b) ==
    IF a > b THEN 0
    ELSE IF a = b THEN records[b].volume
    ELSE LET mid == (a + b) \div 2
         IN  sumVolume(records, a, mid) + sumVolume(records, mid + 1, b)

\* avgCost60 of the bar at 1-based index i
avgCost60(records, i) ==
    LET from == Max(1, i - (CostWindow - 1))
    IN  IF sumVolume(records, from, i) > 0
        THEN Div(sumTurnover(records, from, i), Int2Num(sumVolume(records, from, i)))
        ELSE null

\* avgPositionCost of the bar at 1-based index i
avgPositionCost(records, i) ==
    IF sumVolume(records, 1, i) > 0
    THEN Div(sumTurnover(records, 1, i), Int2Num(sumVolume(records, 1, i)))
    ELSE null

\* profitRatio of the bar at 1-based index i
profitRatio(records, i) ==
    LET avgCost == avgPositionCost(records, i)
    IN  IF avgCost = null THEN null
        ELSE Num(Cardinality({j \in 1 .. i : Gt(records[j].close, avgCost)}), i)

\* comparator (a, b) => a.price - b.price as the sort sees it: NaN counts as 0
comparePrice(a, b) ==
    LET diff == Sub(a.price, b.price)
    IN  IF IsNaN(diff) THEN 0 ELSE Sign(diff[1])

\* x inserted into a sorted array behind every element that does not sort after it
RECURSIVE insertByPrice(_, _)
insertByPrice(sorted, x) ==
    IF sorted = <<>> THEN <<x>>
    ELSE IF comparePrice(sorted[Len(sorted)], x) <= 0 THEN Append(sorted, x)
    ELSE Append(insertByPrice(SubSeq(sorted, 1, Len(sorted) - 1), x), sorted[Len(sorted)])

\* arr[a..b] inserted one after the other, in index order, into sorted
RECURSIVE insertRangeByPrice(_, _, _, _)
insertRangeByPrice(sorted, arr, a, b) ==
    IF a > b THEN sorted
    ELSE IF a = b THEN insertByPrice(sorted, arr[a])
    ELSE LET mid == (a + b) \div 2
         IN  Only({insertRangeByPrice(left, arr, mid + 1, b) :
                      left \in {insertRangeByPrice(sorted, arr, a, mid)}})

\* priceVolume.sort((a, b) => a.price - b.price), a stable sort
sortByPrice(arr) == insertRangeByPrice(<<>>, arr, 1, Len(arr))

\* priceVolume.reduce((sum, pv) => sum + pv.volume, 0)
totalVolOf(pv) == sumVolume(pv, 1, Len(pv))

\* the scan for the 90% interval from 1-based index j: <<lower, upper>> as
\* arrays that are empty for null.  cumVol >= totalVol * 0.05 and
\* cumVol >= totalVol * 0.95 are compared exactly, scaled by 100
chipScanStep(pv, totalVol, st, j) ==
    IF st.broke THEN st
    ELSE LET cv == st.cumVol + pv[j].volume
             lo == IF st.lower = <<>> /\ cv * 100 >= totalVol * 5
                   THEN <<pv[j].price>> ELSE st.lower
         IN  IF st.upper = <<>> /\ cv * 100 >= totalVol * 95
             THEN [cumVol |-> cv, lower |-> lo, upper |-> <<pv[j].price>>, broke |-> TRUE]
             ELSE [cumVol |-> cv, lower |-> lo, upper |-> st.upper, broke |-> FALSE]

\* the loop bodies of the scan for the indices a..b, broke once the break is taken
RECURSIVE chipScanRange(_, _, _, _, _)
chipScanRange(pv, totalVol, st, a, b) ==
    IF a > b THEN st
    ELSE IF a = b THEN chipScanStep(pv, totalVol, st, a)
    ELSE LET mid == (a + b) \div 2
         IN  Only({chipScanRange(pv, totalVol, left, mid + 1, b) :
                      left \in {chipScanRange(pv, totalVol, st, a, mid)}})

chipScan(pv, totalVol, j, cumVol, lower, upper) ==
    LET st == chipScanRange(pv, totalVol,
                  [cumVol |-> cumVol, lower |-> lower, upper |-> upper, broke |-> FALSE],
                  j, Len(pv))
    IN  <<st.lower, st.upper>>

\* <<lower, upper>> found for the bar at 1-based index i
chipBounds(records, i) ==
    LET from == Max(1, i - (ChipWindow - 1))
        priceVolume == sortByPrice([k \in 1 .. i - from + 1 |->
                          [price |-> records[from + k - 1].close,
                           volume |-> records[from + k - 1].volume]] \o <<>>)
    IN  chipScan(priceVolume, totalVolOf(priceVolume), 1, 0, <<>>, <<>>)

\* chipRange90 of a bar given its bounds b: <<lower, upper>>, or <<>> for null
chipRangeOf(b) ==
    IF b[1] # <<>> /\ b[2] # <<>> THEN <<b[1][1], b[2][1]>> ELSE <<>>

\* chipConcentration90 of a bar given its bounds b and its close
chipConcentrationOf(b, close) ==
    IF b[1] # <<>> /\ b[2] # <<>>
    THEN Div(Sub(b[2][1], b[1][1]), OrOne(close))
    ELSE null

chipRange90(records, i) == chipRangeOf(chipBounds(records, i))

chipConcentration90(records, i) ==
    chipConcentrationOf(chipBounds(records, i), records[i].close)

\* the records with their indicator fields set
withIndicators(records) ==
    [i \in 1 .. Len(records) |->
        [date                |-> records[i].date,
         open                |-> records[i].open,
         high                |-> records[i].high,
         low                 |-> records[i].low,
         close               |-> records[i].close,
         turnover            |-> records[i].turnover,
         volume              |-> records[i].volume,
         avgCost60           |-> avgCost60(records, i),
         avgPositionCost     |-> avgPositionCost(records, i),
         profitRatio         |-> profitRatio(records, i),
         chipRange90         |-> chipRange90(records, i),
         chipConcentration90 |-> chipConcentration90(records, i)]] \o <<>>

\* readDayFile after a decoding loop that pushed records
readDecoded(records, dividendArr, code, adjustType) ==
    IF adjustThrows(records, dividendArr, code, adjustType)
    THEN [threw |-> TRUE, records |-> <<>>]
    ELSE [threw |-> FALSE,
          records |-> withIndicators(adjustRecords(records, dividendArr, code, adjustType))]

\* readDayFile(filePath, dividendArr, code, adjustType) on a file holding buf:
\* threw tells that the promise rejects, records is the array it resolves to
readDayFile(buf, dividendArr, code, adjustType) ==
    IF decodeThrows(buf) THEN [threw |-> TRUE, records |-> <<>>]
    ELSE readDecoded(decodeRecords(buf), dividendArr, code, adjustType)

\* ------------------------------------------------------------------------
\* convertAllDayFiles: the merge into the persisted series
\* ------------------------------------------------------------------------
\* JSON.parse(JSON.stringify(bar))
jsonBar(b) ==
    [date                |-> b.date,
     open                |-> JSONNumber(b.open),
     high                |-> JSONNumber(b.high),
     low                 |-> JSONNumber(b.low),
     close               |-> JSONNumber(b.close),
     turnover            |-> JSONNumber(b.turnover),
     volume              |-> b.volume,
     avgCost60           |-> JSONNumber(b.avgCost60),
     avgPositionCost     |-> JSONNumber(b.avgPositionCost),
     profitRatio         |-> JSONNumber(b.profitRatio),
     chipRange90         |-> [k \in DOMAIN b.chipRange90 |-> JSONNumber(b.chipRange90[k])],
     chipConcentration90 |-> JSONNumber(b.chipConcentration90)]

\* JSON.parse(JSON.stringify(data, null, 2))
jsonRoundTrip(data) == [k \in 1 .. Len(data) |-> jsonBar(data[k])] \o <<>>

\* new Set(existingData.map(d => d.date))
existingDates(existingData) == {existingData[k].date : k \in 1 .. Len(existingData)}

\* the bars of newData[a..b] whose date is not in dates, in index order
RECURSIVE filterRange(_, _, _, _)
filterRange(newData, dates, a, b) ==
    IF a > b THEN <<>>
    ELSE IF a = b THEN IF newData[a].date \in dates THEN <<>> ELSE <<newData[a]>>
    ELSE LET mid == (a + b) \div 2
         IN  filterRange(newData, dates, a, mid) \o filterRange(newData, dates, mid + 1, b)

\* mutant of onlyNew: the filter lets every bar through
onlyNewUnfiltered(newData, dates) == newData

\* newData.filter(d => !existingDates.has(d.date))
onlyNew(newData, dates) == filterRange(newData, dates, 1, Len(newData))

\* x inserted into a date-sorted array behind every element that does not sort after it
RECURSIVE insertByDate(_, _)
insertByDate(sorted, x) ==
    IF sorted = <<>> THEN <<x>>
    ELSE IF localeCompare(sorted[Len(sorted)].date, x.date) <= 0 THEN Append(sorted, x)
    ELSE Append(insertByDate(SubSeq(sorted, 1, Len(sorted) - 1), x), sorted[Len(sorted)])

\* arr[a..b] inserted one after the other, in index order, into sorted
RECURSIVE insertRangeByDate(_, _, _, _)
insertRangeByDate(sorted, arr, a, b) ==
    IF a > b THEN sorted
    ELSE IF a = b THEN insertByDate(sorted, arr[a])
    ELSE LET mid == (a + b) \div 2
         IN  Only({insertRangeByDate(left, arr, mid + 1, b) :
                      left \in {insertRangeByDate(sorted, arr, a, mid)}})

\* mutant of sortByDate: the array is left in the order of the concat
sortByDateSkipped(arr) == arr

\* mergedData.sort((a, b) => a.date.localeCompare(b.date)), a stable sort
sortByDate(arr) == insertRangeByDate(<<>>, arr, 1, Len(arr))

\* mutant of mergedData: the new batch wins over the persisted bars
mergedDataNewWins(existing, newData) ==
    IF existing.exists
    THEN newData \o onlyNew(existing.data, existingDates(newData))
    ELSE newData

\* mutant of mergedData: the file is rewritten from the new batch alone
mergedDataOverwrite(existing, newData) == newData

\* mergedData before the sort: existing is the output file ([exists, data])
mergedData(existing, newData) ==
    IF existing.exists
    THEN existing.data \o onlyNew(newData, existingDates(existing.data))
    ELSE newData

\* the output file after the try block of one loop pass that decoded newData:
\* concat or newData, the sort, and the JSON text that writeFile stores
mergeAndWrite(existing, newData) ==
    [exists |-> TRUE, data |-> jsonRoundTrip(sortByDate(mergedData(existing, newData)))]

\* ------------------------------------------------------------------------
\* Inputs
\* ------------------------------------------------------------------------
SeqsUpTo(S, n) == UNION {[1 .. k -> S] : k \in 0 .. n}

subDirs == <<"bj", "sh", "sz">>

Codes == {"600000"}

OtherCode == "000001"

D1 == 20240103

D2 == 20240104

D3 == 20240105

\* <<open, high, low, close, amount, volume>> of a record, money in cents
FlatTen == <<1000, 1000, 1000, 1000, 10000, 10>>

FlatLow == <<990, 990, 990, 990, 9900, 10>>

Candle == <<1010, 1030, 1000, 1020, 20400, 20>>

Penny == <<10, 10, 10, 10, 0, 0>>

Odd == <<0, 5, -5, 0, -100, -1>>

RawRec(d, p) == <<d, p[1], p[2], p[3], p[4], p[5], p[6]>>

\* corporate-action events
Event(code, d, cash, bonus, dispatch, splite, price) ==
    [code |-> code, date |-> formatDate(d), cash |-> cash, bonus |-> bonus,
     dispatch |-> dispatch, splite |-> splite, price |-> price]

CashOnly(code, d) == Event(code, d, <<1, 1>>, <<0, 1>>, <<0, 1>>, <<1, 1>>, <<0, 1>>)

\* 10 bonus shares per 10, no split multiplier given
BonusOnly(code, d) == Event(code, d, <<0, 1>>, <<10, 1>>, <<0, 1>>, <<0, 1>>, <<0, 1>>)

\* rights issue 5 per 10 at 8.00, cash 0.5 per 10, split 2
Rights(code, d) == Event(code, d, <<1, 2>>, <<0, 1>>, <<5, 1>>, <<2, 1>>, <<8, 1>>)

\* the source files of the ingestion runs
IngestRecs == {RawRec(D1, FlatTen), RawRec(D2, FlatLow)}

IngestFiles ==
    {[recs |-> r, trunc |-> t] : r \in SeqsUpTo(IngestRecs, MaxRecs), t \in {0}}
    \cup {[recs |-> <<RawRec(D2, FlatLow)>>, trunc |-> 8]}

IngestDividends == {<<CashOnly("600000", D2)>>}

\* the exchange directories that exist under inputRootDir
InputDirs == {"sh", "sz"}

AdjustTypes == {"none", "qfq", "hfq"}

\* ------------------------------------------------------------------------
\* State
\* ------------------------------------------------------------------------
VARIABLES
    disk,         \* outputDir: code -> [exists, data] of <code>.json
    pc,           \* "idle", or "loop" while convertAllDayFiles runs its for loop
    adjustType,   \* argument of the running (or last) call
    dividendArr,  \* what readDividendData returned to it
    done,         \* <<exchange, code>> of the files the running loop has passed
    last,         \* the readDayFile call of the last loop pass: file, result
    alt,          \* a second outputDir, fed the same batches in the other order
    order,        \* the two batches of the order experiment and its phase
    selected,     \* selected.json of jsonDir: [exists, list]
    summary,      \* the summary array of the backtest's main
    batch         \* the files array of a run whose passes are followed one by one

vars == <<disk, pc, adjustType, dividendArr, done, last, alt, order, selected, summary, batch>>

NoFile == [recs |-> <<>>, trunc |-> 0]

NoCall == [kind |-> "none", code |-> "", file |-> NoFile, threw |-> FALSE, newData |-> <<>>]

NoOrder == [phase |-> "seed", A |-> <<>>, B |-> <<>>]

EmptyDir == [c \in Codes |-> [exists |-> FALSE, data |-> <<>>]]

Init ==
    /\ disk = EmptyDir
    /\ pc = "idle"
    /\ adjustType = "none"
    /\ dividendArr = <<>>
    /\ done = <<>>
    /\ last = NoCall
    /\ alt = EmptyDir
    /\ order = NoOrder
    /\ selected = [exists |-> FALSE, list |-> <<>>]
    /\ summary = <<>>
    /\ batch = <<>>

\* position of an exchange directory in subDirs
DirIndex(e) == CHOOSE k \in 1 .. Len(subDirs) : subDirs[k] = e

\* convertAllDayFiles up to the loop: the dividend file and the index are
\* read; an unreadable index returns before the loop
StartRun(type, divs, indexReadable) ==
    /\ pc = "idle"
    /\ adjustType' = type
    /\ dividendArr' = divs
    /\ done' = <<>>
    /\ last' = NoCall
    /\ pc' = IF indexReadable THEN "loop" ELSE "idle"
    /\ UNCHANGED <<disk, alt, order, selected, summary, batch>>

\* a pass that opens the output file for writing before it reads the source
afterPassTruncating(dir, code, r) ==
    IF r.threw THEN [dir EXCEPT ![code] = [exists |-> TRUE, data |-> <<>>]]
    ELSE [dir EXCEPT ![code] = mergeAndWrite(dir[code], r.records)]

\* the directory dir after a loop pass whose readDayFile call returned r
afterPass(dir, code, r) ==
    IF r.threw THEN dir ELSE [dir EXCEPT ![code] = mergeAndWrite(dir[code], r.records)]

\* one pass of the for loop, over the file <exchange><code>.day holding file
ConvertFile(exchange, code, file) ==
    /\ pc = "loop"
    /\ Len(done) < MaxFiles
    /\ \A k \in 1 .. Len(done) :
          /\ done[k] # <<exchange, code>>
          /\ DirIndex(done[k][1]) <= DirIndex(exchange)
    /\ \E r \in {readDayFile(BufOf(file), dividendArr, code, adjustType)} :
          /\ last' = [kind |-> "convert", code |-> code, file |-> file,
                      threw |-> r.threw, newData |-> r.records]
          /\ disk' = afterPass(disk, code, r)
    /\ done' = Append(done, <<exchange, code>>)
    /\ UNCHANGED <<pc, adjustType, dividendArr, alt, order, selected, summary, batch>>

\* the loop is over and convertAllDayFiles returns
FinishRun ==
    /\ pc = "loop"
    /\ pc' = "idle"
    /\ done' = <<>>
    /\ last' = NoCall
    /\ UNCHANGED <<disk, adjustType, dividendArr, alt, order, selected, summary, batch>>

Next ==
    \/ \E type \in AdjustTypes, divs \in IngestDividends, ok \in BOOLEAN :
          StartRun(type, divs, ok)
    \/ \E e \in InputDirs, code \in Codes, file \in IngestFiles :
          ConvertFile(e, code, file)
    \/ FinishRun

Spec == Init /\ [][Next]_vars

\* ------------------------------------------------------------------------
\* Properties of the merge (specification Spec)
\* ------------------------------------------------------------------------
\* the bars of data dated d, in their order
RECURSIVE barsAt(_, _)
barsAt(data, d) ==
    IF data = <<>> THEN <<>>
    ELSE IF Head(data).date = d THEN <<Head(data)>> \o barsAt(Tail(data), d)
    ELSE barsAt(Tail(data), d)

\* the last loop pass decoded its file and wrote the merged series
Merged == last.kind = "convert" /\ ~last.threw

\* C1: a step never changes the bars that the persisted series of an
\* instrument holds for a date it already has, whatever the new batch
\* carries for that date.
MergeNeverOverwrites ==
    [][\A c \in Codes : \A d \in existingDates(disk[c].data) :
          barsAt(disk'[c].data, d) = barsAt(disk[c].data, d)]_vars

\* a merge has met a batch whose bar for a persisted date differs from the
\* persisted one
OverlapWithDifferentBar ==
    /\ Merged
    /\ \E k \in 1 .. Len(last.newData) :
          /\ last.newData[k].date \in existingDates(disk[last.code].data)
          /\ \A m \in 1 .. Len(disk[last.code].data) :
                disk[last.code].data[m] # jsonBar(last.newData[k])

\* C2: right after a batch was merged, merging the same batch once more
\* gives the persisted series back unchanged.
MergeIdempotent ==
    Merged => mergeAndWrite(disk[last.code], last.newData) = disk[last.code]

\* a batch was merged into a series that holds dates of the batch and
\* dates the batch does not have
MergedOverlapping ==
    /\ Merged
    /\ Len(last.newData) > 0
    /\ \E m \in 1 .. Len(disk[last.code].data) :
          disk[last.code].data[m].date \notin existingDates(last.newData)
    /\ \E k \in 1 .. Len(last.newData) :
          \A m \in 1 .. Len(disk[last.code].data) :
             disk[last.code].data[m] # jsonBar(last.newData[k])

\* C4: every persisted series holds each date once, in ascending order of
\* the date strings, and after a merge holds every date of the batch.
SeriesInvariant ==
    /\ \A c \in Codes : \A k \in 1 .. Len(disk[c].data) - 1 :
          localeCompare(disk[c].data[k].date, disk[c].data[k + 1].date) < 0
    /\ Merged => existingDates(last.newData) \subseteq existingDates(disk[last.code].data)

\* C5: a step never removes a date, or the file, of a persisted series.
NeverDeletes ==
    [][\A c \in Codes :
          /\ disk[c].exists => disk'[c].exists
          /\ existingDates(disk[c].data) \subseteq existingDates(disk'[c].data)]_vars

\* a later run has merged a batch into a series and a date that the batch
\* does not have is still there
OldDateSurvives ==
    /\ Merged
    /\ \E m \in 1 .. Len(disk[last.code].data) :
          disk[last.code].data[m].date \notin existingDates(last.newData)

\* ------------------------------------------------------------------------
\* Two orders of the same two batches (specification SpecOrder)
\* ------------------------------------------------------------------------
\* the source files of the order experiment
OrderRecs == IngestRecs \cup {RawRec(D1, Candle)}

OrderFiles == {[recs |-> r, trunc |-> 0] : r \in SeqsUpTo(OrderRecs, MaxOrderRecs)}

SeedFiles == {[recs |-> r, trunc |-> 0] : r \in SeqsUpTo(OrderRecs, MaxSeedRecs)}

\* a run of convertAllDayFiles over one file, the same in both directories:
\* the series that exists before the two batches arrive
OrderSeed(code, file, type, divs) ==
    /\ order.phase = "seed"
    /\ adjustType' = type
    /\ dividendArr' = divs
    /\ \E r \in {readDayFile(BufOf(file), divs, code, type)} :
          /\ disk' = afterPass(disk, code, r)
          /\ alt' = afterPass(alt, code, r)
    /\ order' = [order EXCEPT !.phase = "seeded"]
    /\ UNCHANGED <<pc, done, last, selected, summary, batch>>

\* one run per directory: disk gets the batch of fileA, alt the batch of fileB
OrderFirst(code, fileA, fileB, type, divs) ==
    /\ order.phase \in {"seed", "seeded"}
    /\ order.phase = "seeded" => (type = adjustType /\ divs = dividendArr)
    /\ adjustType' = type
    /\ dividendArr' = divs
    /\ \E rA \in {readDayFile(BufOf(fileA), divs, code, type)},
          rB \in {readDayFile(BufOf(fileB), divs, code, type)} :
          /\ ~rA.threw
          /\ ~rB.threw
          /\ disk' = afterPass(disk, code, rA)
          /\ alt' = afterPass(alt, code, rB)
          /\ order' = [phase |-> "first", A |-> rA.records, B |-> rB.records]
    /\ UNCHANGED <<pc, done, last, selected, summary, batch>>

\* the next run per directory: disk gets batch B, alt gets batch A
OrderSecond(code) ==
    /\ order.phase = "first"
    /\ disk' = afterPass(disk, code, [threw |-> FALSE, records |-> order.B])
    /\ alt' = afterPass(alt, code, [threw |-> FALSE, records |-> order.A])
    /\ order' = [order EXCEPT !.phase = "done"]
    /\ UNCHANGED <<pc, adjustType, dividendArr, done, last, selected, summary, batch>>

NextOrder ==
    \/ /\ order.phase = "seed"
       /\ \E code \in Codes, file \in SeedFiles, type \in AdjustTypes,
             divs \in IngestDividends :
             OrderSeed(code, file, type, divs)
    \/ /\ order.phase \in {"seed", "seeded"}
       /\ \E code \in Codes, fileA \in OrderFiles, fileB \in OrderFiles,
             type \in AdjustTypes, divs \in IngestDividends :
             OrderFirst(code, fileA, fileB, type, divs)
    \/ \E code \in Codes : OrderSecond(code)

SpecOrder == Init /\ [][NextOrder]_vars

\* the dates that batches A and B share
sharedDates == existingDates(order.A) \cap existingDates(order.B)

\* C3 as claimed: with disjoint or equal date sets, A then B and B then A
\* end in the same persisted series.
OrderIndependentByDateSets ==
    (/\ order.phase = "done"
     /\ \/ sharedDates = {}
        \/ existingDates(order.A) = existingDates(order.B))
    => disk = alt

\* C3 as amended: A then B and B then A end in the same persisted series
\* when the two batches carry, for every date they share, the same bars in
\* the same order (as they do when they share no date).
OrderIndependent ==
    (/\ order.phase = "done"
     /\ \A d \in sharedDates : barsAt(order.A, d) = barsAt(order.B, d))
    => disk = alt

\* both orders were run on two different batches that share a date, with
\* the same bars for it, and one of which has a date of its own
OrderedOverlap ==
    /\ order.phase = "done"
    /\ sharedDates # {}
    /\ existingDates(order.A) # existingDates(order.B)
    /\ \A d \in sharedDates : barsAt(order.A, d) = barsAt(order.B, d)

\* C26: after batch A and then batch B, which share no date, were ingested
\* into an empty directory, every bar of the persisted series holds as
\* avgPositionCost the turnover of the persisted bars up to it over their
\* volume (null when that volume is 0).
ExpandingCostBasis ==
    (order.phase = "done" /\ sharedDates = {})
    => \A c \in Codes :
          (/\ disk[c].exists
           /\ disk[c].data = jsonRoundTrip(sortByDate(order.A \o order.B)))
          => \A i \in 1 .. Len(disk[c].data) :
                disk[c].data[i].avgPositionCost
                   = IF sumVolume(disk[c].data, 1, i) > 0
                     THEN Div(sumTurnover(disk[c].data, 1, i),
                              Int2Num(sumVolume(disk[c].data, 1, i)))
                     ELSE null

\* ------------------------------------------------------------------------
\* readDayFile called on its own, as the test does (specification SpecRead)
\* ------------------------------------------------------------------------
ReadDates == {D1, D2, D3}

ReadProfiles == {FlatTen, FlatLow, Candle, Penny, Odd}

\* the dates of a set in ascending order
Ascending(S) ==
    CHOOSE q \in [1 .. Cardinality(S) -> S] : \A k \in 1 .. Cardinality(S) - 1 : q[k] < q[k + 1]

\* the records of the source files: up to MaxReadRecs trading days in
\* ascending order of their dates
ReadSeries ==
    UNION {{[k \in 1 .. Cardinality(S) |-> RawRec(Ascending(S)[k], p[k])] :
               p \in [1 .. Cardinality(S) -> ReadProfiles]} :
           S \in {T \in SUBSET ReadDates : Cardinality(T) <= MaxReadRecs}}

ReadFiles == {[recs |-> r, trunc |-> 0] : r \in ReadSeries}

\* source files that end in a partial record of 1 to 31 bytes
TruncatedFiles ==
    {[recs |-> r, trunc |-> t] :
        r \in {q \in SeqsUpTo({RawRec(D1, FlatTen), RawRec(D2, Odd)}, MaxReadRecs) : q # <<>>},
        t \in 1 .. recordSize - 1}

\* events of the instrument on the middle and on the last date, and one of
\* another instrument
ReadEvents ==
    {CashOnly("600000", D2), CashOnly("600000", D3), Rights("600000", D2),
     CashOnly(OtherCode, D2)}

ReadDividends == SeqsUpTo(ReadEvents, MaxEvents)

\* readDayFile(file, divs, code, type) is called and returns or throws
ReadFile(file, divs, code, type) ==
    /\ last.kind = "none"
    /\ adjustType' = type
    /\ dividendArr' = divs
    /\ \E r \in {readDayFile(BufOf(file), divs, code, type)} :
          last' = [kind |-> "read", code |-> code, file |-> file,
                   threw |-> r.threw, newData |-> r.records]
    /\ UNCHANGED <<disk, pc, done, alt, order, selected, summary, batch>>

\* the same call on a file whose last record is cut short
ReadTruncated(file, divs, code, type) ==
    /\ file.trunc > 0
    /\ ReadFile(file, divs, code, type)

NextRead ==
    /\ last.kind = "none"
    /\ \/ \E file \in ReadFiles, divs \in ReadDividends, code \in Codes, type \in AdjustTypes :
             ReadFile(file, divs, code, type)
       \/ \E file \in TruncatedFiles, divs \in IngestDividends \cup {<<>>}, code \in Codes,
             type \in AdjustTypes :
             ReadTruncated(file, divs, code, type)

SpecRead == Init /\ [][NextRead]_vars

\* ------------------------------------------------------------------------
\* Properties of readDayFile (SpecRead)
\* ------------------------------------------------------------------------
\* a call of readDayFile on a file of complete records has returned or thrown
ReadWhole == last.kind = "read" /\ last.file.trunc = 0

\* the price that writeDay stored as the integer v
stored(v) == Num(v, 100)

\* the events of dividendArr that carry the code of the call
ownEvents == filterByCode(dividendArr, last.code)

\* C6: a buffer whose length is not a multiple of 32 makes the call fail
\* and return no records, whatever the length of the partial record.
PartialRecordRejected ==
    (last.kind = "read" /\ Len(BufOf(last.file)) % recordSize # 0)
    => (last.threw /\ last.newData = <<>>)

\* C7: in mode none a buffer of n complete records gives n bars in file
\* order, bar k with the date of record k as YYYY-MM-DD, its five stored
\* integers divided by 100 and its volume.
DecoderRoundTrip ==
    (ReadWhole /\ adjustType = "none")
    => /\ ~last.threw
       /\ Len(last.newData) = Len(last.file.recs)
       /\ \A k \in 1 .. Len(last.file.recs) :
             LET r == last.file.recs[k]
                 b == last.newData[k]
                 y == r[1] \div 10000
                 m == (r[1] \div 100) % 100
                 d == r[1] % 100
             IN  /\ b.date = <<Digit(y \div 1000), Digit((y \div 100) % 10),
                                Digit((y \div 10) % 10), Digit(y % 10), "-",
                                Digit(m \div 10), Digit(m % 10), "-",
                                Digit(d \div 10), Digit(d % 10)>>
                 /\ b.open = stored(r[2])
                 /\ b.high = stored(r[3])
                 /\ b.low = stored(r[4])
                 /\ b.close = stored(r[5])
                 /\ b.turnover = stored(r[6])
                 /\ b.volume = r[7]

\* three records were decoded in mode none, one of them with negative fields
DecodedThree ==
    /\ ReadWhole
    /\ adjustType = "none"
    /\ Len(last.newData) = 3
    /\ \E k \in 1 .. 3 : last.file.recs[k][4] < 0 /\ last.newData[k].volume < 0

\* C8: in mode none every bar keeps the decoded open, high, low, close and
\* turnover, whatever the events.
NoneKeepsPrices ==
    (ReadWhole /\ adjustType = "none")
    => /\ ~last.threw
       /\ \A k \in 1 .. Len(last.newData) :
             LET r == decodeRecords(BufOf(last.file))[k]
                 b == last.newData[k]
             IN  /\ b.open = r.open
                 /\ b.high = r.high
                 /\ b.low = r.low
                 /\ b.close = r.close
                 /\ b.turnover = r.turnover

\* mode none was used with an event of the instrument on a date of the series
NoneWithOwnEvent ==
    /\ ReadWhole
    /\ adjustType = "none"
    /\ \E k \in 1 .. Len(last.newData) : dividendMapHas(ownEvents, last.newData[k].date)

\* C9: after qfq the last bar of a non-empty series has its decoded close.
QfqAnchor ==
    (ReadWhole /\ adjustType = "qfq" /\ last.file.recs # <<>>)
    => /\ ~last.threw
       /\ Len(last.newData) = Len(last.file.recs)
       /\ last.newData[Len(last.newData)].close
             = stored(last.file.recs[Len(last.file.recs)][5])

\* qfq ran with an event on the last bar and changed the close of the first
QfqMovedEarlierBars ==
    /\ ReadWhole
    /\ adjustType = "qfq"
    /\ Len(last.newData) >= 2
    /\ dividendMapHas(ownEvents, last.newData[Len(last.newData)].date)
    /\ last.newData[1].close # stored(last.file.recs[1][5])

\* the event is cash-only: no bonus, no rights, split 1
cashOnly(div) == div.bonus = <<0, 1>> /\ div.dispatch = <<0, 1>> /\ div.splite = <<1, 1>>

\* num * (close - cash / 10) / close, rounded to the cent
cashScaled(num, close, cash) ==
    LET ratio   == Div(Sub(close, Div(cash, <<10, 1>>)), close)
        scaled  == Mul(Mul(num, ratio), <<100, 1>>)
        rounded == (2 * scaled[1] + scaled[2]) \div (2 * scaled[2])
    IN  Num(rounded, 100)

\* C10: qfq with a single cash-only event on bar k > 0 (of positive close)
\* keeps the prices of the bars from k on and multiplies each price of the
\* bars before k by (close[k] - cash/10) / close[k], rounded to the cent;
\* closes 10.00, 9.90, 10.20 with cash 1.0 on the 2nd bar become 9.90,
\* 9.90, 10.20.
QfqCashOnly ==
    (ReadWhole /\ adjustType = "qfq")
    => /\ \A k \in 2 .. Len(last.file.recs) :
            (/\ Len(ownEvents) = 1
             /\ cashOnly(ownEvents[1])
             /\ ownEvents[1].date = formatDate(last.file.recs[k][1])
             /\ last.file.recs[k][5] > 0)
            => /\ ~last.threw
               /\ Len(last.newData) = Len(last.file.recs)
               /\ \A i \in 1 .. Len(last.file.recs) : \A f \in 2 .. 5 :
                     LET price == CASE f = 2 -> last.newData[i].open
                                    [] f = 3 -> last.newData[i].high
                                    [] f = 4 -> last.newData[i].low
                                    [] f = 5 -> last.newData[i].close
                     IN  price = IF i >= k THEN stored(last.file.recs[i][f])
                                 ELSE cashScaled(stored(last.file.recs[i][f]),
                                                 stored(last.file.recs[k][5]),
                                                 ownEvents[1].cash)
       /\ (/\ last.file.recs = <<RawRec(D1, FlatTen), RawRec(D2, FlatLow), RawRec(D3, Candle)>>
           /\ dividendArr = <<CashOnly(last.code, D2)>>)
          => /\ last.newData[1].close = <<99, 10>>
             /\ last.newData[2].close = <<99, 10>>
             /\ last.newData[3].close = <<51, 5>>

\* the three bars of the test were read under qfq with the cash dividend of
\* 1.0 on the 2nd bar, and the first bar was scaled
QfqTestCase ==
    /\ ReadWhole
    /\ adjustType = "qfq"
    /\ last.file.recs = <<RawRec(D1, FlatTen), RawRec(D2, FlatLow), RawRec(D3, Candle)>>
    /\ dividendArr = <<CashOnly(last.code, D2)>>
    /\ last.newData[1].close # stored(last.file.recs[1][5])

\* num * (close + cash / 10) / close, rounded to the cent
cashRestored(num, close, cash) ==
    LET ratio   == Div(Add(close, Div(cash, <<10, 1>>)), close)
        scaled  == Mul(Mul(num, ratio), <<100, 1>>)
        rounded == (2 * scaled[1] + scaled[2]) \div (2 * scaled[2])
    IN  Num(rounded, 100)

\* C11: hfq with a single event of the instrument on bar k (of positive
\* close) keeps the prices of the bars before k and multiplies each price of
\* the bars from k on by (close[k] + cash/10) / close[k], the decoded close
\* of bar k, rounded to the cent; closes 10.00, 9.90, 10.20 with cash 1.0 on
\* the 2nd bar become 10.00, 10.00, 10.30.
HfqCashEvent ==
    (ReadWhole /\ adjustType = "hfq")
    => /\ \A k \in 1 .. Len(last.file.recs) :
            (/\ Len(ownEvents) = 1
             /\ ownEvents[1].date = formatDate(last.file.recs[k][1])
             /\ last.file.recs[k][5] > 0)
            => /\ ~last.threw
               /\ Len(last.newData) = Len(last.file.recs)
               /\ \A i \in 1 .. Len(last.file.recs) : \A f \in 2 .. 5 :
                     LET price == CASE f = 2 -> last.newData[i].open
                                    [] f = 3 -> last.newData[i].high
                                    [] f = 4 -> last.newData[i].low
                                    [] f = 5 -> last.newData[i].close
                     IN  price = IF i < k THEN stored(last.file.recs[i][f])
                                 ELSE cashRestored(stored(last.file.recs[i][f]),
                                                   stored(last.file.recs[k][5]),
                                                   ownEvents[1].cash)
       /\ (/\ last.file.recs = <<RawRec(D1, FlatTen), RawRec(D2, FlatLow), RawRec(D3, Candle)>>
           /\ dividendArr = <<CashOnly(last.code, D2)>>)
          => /\ last.newData[1].close = <<10, 1>>
             /\ last.newData[2].close = <<10, 1>>
             /\ last.newData[3].close = <<103, 10>>

\* the three bars of the test were read under hfq with the cash dividend of
\* 1.0 on the 2nd bar, and the event bar itself was scaled
HfqTestCase ==
    /\ ReadWhole
    /\ adjustType = "hfq"
    /\ last.file.recs = <<RawRec(D1, FlatTen), RawRec(D2, FlatLow), RawRec(D3, Candle)>>
    /\ dividendArr = <<CashOnly(last.code, D2)>>
    /\ last.newData[2].close # stored(last.file.recs[2][5])
    /\ last.newData[1].close = stored(last.file.recs[1][5])

\* the factor the hfq branch applies to the bar at 1-based index i
hfqApplied(i) ==
    LET records == decodeRecords(BufOf(last.file))
    IN  OrOne(hfqFactorMap(records, ownEvents, 1, One, EmptyMap)[records[i].date])

\* C12: under hfq the factor applied to a bar is never smaller than the
\* factor applied to an earlier bar (series of non-negative closes).
HfqCarryForward ==
    (ReadWhole /\ adjustType = "hfq" /\ ~last.threw
       /\ \A k \in 1 .. Len(last.file.recs) : last.file.recs[k][5] >= 0)
    => \A i \in 1 .. Len(last.file.recs) : \A j \in i .. Len(last.file.recs) :
          /\ ~IsNaN(hfqApplied(i))
          /\ ~Gt(hfqApplied(i), hfqApplied(j))

\* hfq ran over three bars with an event of the instrument on the 2nd: the
\* factor of the 3rd is greater than the factor of the 1st
HfqFactorRose ==
    /\ ReadWhole
    /\ adjustType = "hfq"
    /\ Len(last.newData) = 3
    /\ dividendMapHas(ownEvents, last.newData[2].date)
    /\ Gt(hfqApplied(3), hfqApplied(1))

\* C13: with an empty event list, or one without an event of the
\* instrument, qfq and hfq return every bar with its decoded open, high,
\* low, close and turnover.
NoEventsNoAdjustment ==
    (ReadWhole /\ adjustType \in {"qfq", "hfq"} /\ ownEvents = <<>>)
    => /\ ~last.threw
       /\ Len(last.newData) = Len(last.file.recs)
       /\ \A k \in 1 .. Len(last.newData) :
             /\ last.newData[k].open = stored(last.file.recs[k][2])
             /\ last.newData[k].high = stored(last.file.recs[k][3])
             /\ last.newData[k].low = stored(last.file.recs[k][4])
             /\ last.newData[k].close = stored(last.file.recs[k][5])
             /\ last.newData[k].turnover = stored(last.file.recs[k][6])

\* C23: under hfq, whatever events the list holds for the instrument (one
\* dated on the first bar included), the first bar comes back with its
\* decoded open, high, low, close and turnover.
HfqFirstBarUnscaled ==
    (ReadWhole /\ adjustType = "hfq" /\ ~last.threw /\ Len(last.file.recs) >= 1)
    => /\ Len(last.newData) = Len(last.file.recs)
       /\ last.newData[1].open = stored(last.file.recs[1][2])
       /\ last.newData[1].high = stored(last.file.recs[1][3])
       /\ last.newData[1].low = stored(last.file.recs[1][4])
       /\ last.newData[1].close = stored(last.file.recs[1][5])
       /\ last.newData[1].turnover = stored(last.file.recs[1][6])

\* divs without the events that a later event of the same instrument and
\* date follows
RECURSIVE withoutEarlierDuplicates(_)
withoutEarlierDuplicates(divs) ==
    IF divs = <<>> THEN <<>>
    ELSE IF \E m \in 2 .. Len(divs) :
               divs[m].code = Head(divs).code /\ divs[m].date = Head(divs).date
         THEN withoutEarlierDuplicates(Tail(divs))
         ELSE <<Head(divs)>> \o withoutEarlierDuplicates(Tail(divs))

\* two events of the instrument of the call that share their date
duplicateDate ==
    \E k, m \in 1 .. Len(ownEvents) : k < m /\ ownEvents[k].date = ownEvents[m].date

\* C27: when the list holds several events of the instrument on one date,
\* qfq and hfq adjustment give the result of the same call on the list
\* without the earlier events of each date: the last event alone is applied.
LastEventWins ==
    (ReadWhole /\ adjustType \in {"qfq", "hfq"} /\ duplicateDate)
    => \E r \in {readDayFile(BufOf(last.file), withoutEarlierDuplicates(dividendArr),
                              last.code, adjustType)} :
          /\ last.threw = r.threw
          /\ last.newData = r.records

\* a cash dividend followed by a rights issue on the same date of the file:
\* the result differs from the one the cash dividend alone would give
LastOfTwoEventsApplied ==
    /\ ReadWhole /\ adjustType \in {"qfq", "hfq"} /\ ~last.threw
    /\ dividendArr = <<CashOnly("600000", D2), Rights("600000", D2)>>
    /\ last.code = "600000"
    /\ \E i \in 2 .. Len(last.newData) : last.newData[i].date = formatDate(D2)
    /\ last.newData # readDayFile(BufOf(last.file), <<CashOnly("600000", D2)>>,
                                  last.code, adjustType).records
    /\ last.newData = readDayFile(BufOf(last.file), <<Rights("600000", D2)>>,
                                  last.code, adjustType).records

\* the volumes of the bars max(1, i - 89) .. i of the file, summed
windowVolume(i) == sumVolume([k \in 1 .. i |-> [volume |-> last.file.recs[k][7]]],
                             Max(1, i - (ChipWindow - 1)), i)

\* C24: a bar whose window of up to 90 bars has a total volume of 0 comes
\* back with chipRange90 null and chipConcentration90 null.
ChipNullOnZeroVolume ==
    (ReadWhole /\ ~last.threw)
    => \A i \in 1 .. Len(last.newData) :
          windowVolume(i) = 0
          => /\ last.newData[i].chipRange90 = <<>>
             /\ last.newData[i].chipConcentration90 = null

\* ------------------------------------------------------------------------
\* backtest: sma, backtestMultiTrades and the summary of main
\* ------------------------------------------------------------------------
\* arr[a] + ... + arr[b], the sum a reduce from 0 gives; the sum is exact,
\* so it is taken by halves to keep the evaluation shallow
RECURSIVE sumOf(_, _, _)
sumOf(arr, a, b) ==
    IF a > b THEN <<0, 1>>
    ELSE IF a = b THEN Add(<<0, 1>>, arr[a])
    ELSE Add(sumOf(arr, a, (a + b) \div 2), sumOf(arr, ((a + b) \div 2) + 1, b))

\* sma(arr, period): NaN for the first period - 1 elements
sma(arr, period) ==
    [i \in 1 .. Len(arr) |->
        IF i - 1 < period - 1 THEN NaN
        ELSE Div(sumOf(arr, i - period + 1, i), Int2Num(period))]

\* Math.max(...arr.slice(a - 1, b)): -Infinity for no argument, NaN if any is
RECURSIVE mathMax(_, _, _)
mathMax(arr, a, b) ==
    IF a > b THEN <<-1, 0>>
    ELSE LET m == mathMax(arr, a, b - 1)
         IN  IF IsNaN(m) \/ IsNaN(arr[b]) THEN NaN
             ELSE IF Gt(arr[b], m) THEN arr[b] ELSE m

\* ((sellPrice - buyPrice) / buyPrice) * 100
returnPctOf(sellPrice, buyPrice) == Mul(Div(Sub(sellPrice, buyPrice), buyPrice), <<100, 1>>)

tradeRecord(code, name, buyDate, sellDate, buyPrice, sellPrice, holdDays) ==
    [code |-> code, name |-> name, buyDate |-> buyDate, sellDate |-> sellDate,
     buyPrice |-> buyPrice, sellPrice |-> sellPrice, holdDays |-> holdDays,
     returnPct |-> returnPctOf(sellPrice, buyPrice)]

\* mutant of tradeStep: a position is sold on the first bar after its entry
tradeStepSellNext(ctx, st, i) ==
    LET curr == ctx.data[i]
    IN  IF ~st.holding
        THEN LET max20      == mathMax(ctx.closes, i - 20, i - 1)
                 volRatio   == IF Gt(ctx.vol5[i], <<0, 1>>)
                               THEN Div(Int2Num(curr.volume), ctx.vol5[i])
                               ELSE <<0, 1>>
                 isBreakout == Gt(curr.close, max20)
                 isVolSpike == Gt(volRatio, <<3, 2>>)
             IN  IF isBreakout /\ isVolSpike
                 THEN [st EXCEPT !.holding = TRUE, !.buyIndex = i - 1,
                                 !.buyPrice = curr.close, !.buyDate = curr.date]
                 ELSE st
        ELSE [st EXCEPT !.trades = Append(st.trades,
                            tradeRecord(ctx.code, ctx.name, st.buyDate, curr.date,
                                        st.buyPrice, curr.close, (i - 1) - st.buyIndex)),
                        !.holding = FALSE,
                        !.buyIndex = -1]

\* mutant of tradeStep: a breakout is bought whatever its volume
tradeStepNoSpike(ctx, st, i) ==
    LET curr == ctx.data[i]
    IN  IF ~st.holding
        THEN LET max20      == mathMax(ctx.closes, i - 20, i - 1)
                 isBreakout == Gt(curr.close, max20)
             IN  IF isBreakout
                 THEN [st EXCEPT !.holding = TRUE, !.buyIndex = i - 1,
                                 !.buyPrice = curr.close, !.buyDate = curr.date]
                 ELSE st
        ELSE IF Gt(ctx.ma10[i], curr.close)
             THEN [st EXCEPT !.trades = Append(st.trades,
                                 tradeRecord(ctx.code, ctx.name, st.buyDate, curr.date,
                                             st.buyPrice, curr.close, (i - 1) - st.buyIndex)),
                             !.holding = FALSE,
                             !.buyIndex = -1]
             ELSE st

\* mutant of tradeStep: the holding state is not reset after a sale
tradeStepNoReset(ctx, st, i) ==
    LET curr == ctx.data[i]
    IN  IF ~st.holding
        THEN LET max20      == mathMax(ctx.closes, i - 20, i - 1)
                 volRatio   == IF Gt(ctx.vol5[i], <<0, 1>>)
                               THEN Div(Int2Num(curr.volume), ctx.vol5[i])
                               ELSE <<0, 1>>
                 isBreakout == Gt(curr.close, max20)
                 isVolSpike == Gt(volRatio, <<3, 2>>)
             IN  IF isBreakout /\ isVolSpike
                 THEN [st EXCEPT !.holding = TRUE, !.buyIndex = i - 1,
                                 !.buyPrice = curr.close, !.buyDate = curr.date]
                 ELSE st
        ELSE IF Gt(ctx.ma10[i], curr.close)
             THEN [st EXCEPT !.trades = Append(st.trades,
                                 tradeRecord(ctx.code, ctx.name, st.buyDate, curr.date,
                                             st.buyPrice, curr.close, (i - 1) - st.buyIndex))]
             ELSE st

\* one pass of the for loop of backtestMultiTrades, i the 1-based index of
\* data[i - 1]; st holds holding, buyIndex (0-based as in the code),
\* buyPrice, buyDate and trades
tradeStep(ctx, st, i) ==
    LET curr == ctx.data[i]
    IN  IF ~st.holding
        THEN LET max20      == mathMax(ctx.closes, i - 20, i - 1)
                 volRatio   == IF Gt(ctx.vol5[i], <<0, 1>>)
                               THEN Div(Int2Num(curr.volume), ctx.vol5[i])
                               ELSE <<0, 1>>
                 isBreakout == Gt(curr.close, max20)
                 isVolSpike == Gt(volRatio, <<3, 2>>)
             IN  IF isBreakout /\ isVolSpike
                 THEN [st EXCEPT !.holding = TRUE, !.buyIndex = i - 1,
                                 !.buyPrice = curr.close, !.buyDate = curr.date]
                 ELSE st
        ELSE IF Gt(ctx.ma10[i], curr.close)
             THEN [st EXCEPT !.trades = Append(st.trades,
                                 tradeRecord(ctx.code, ctx.name, st.buyDate, curr.date,
                                             st.buyPrice, curr.close, (i - 1) - st.buyIndex)),
                             !.holding = FALSE,
                             !.buyIndex = -1]
             ELSE st

RECURSIVE tradeLoop(_, _, _)
tradeLoop(ctx, st, i) ==
    IF i > Len(ctx.data) THEN st ELSE tradeLoop(ctx, tradeStep(ctx, st, i), i + 1)

\* the variables of backtestMultiTrades after each pass of its for loop, from
\* the pass of the 1-based index i on
RECURSIVE tradeSteps(_, _, _)
tradeSteps(ctx, st, i) ==
    IF i > Len(ctx.data) THEN <<>>
    ELSE Only({<<nx>> \o tradeSteps(ctx, nx, i + 1) : nx \in {tradeStep(ctx, st, i)}})

\* the passes of the for loop of backtestMultiTrades(code, name, data): none
\* when the function returns before the loop
loopPasses(code, name, data) ==
    LET closes  == [k \in 1 .. Len(data) |-> data[k].close] \o <<>>
        volumes == [k \in 1 .. Len(data) |-> Int2Num(data[k].volume)] \o <<>>
        ctx     == [code |-> code, name |-> name, data |-> data, closes |-> closes,
                    ma10 |-> sma(closes, 10), vol5 |-> sma(volumes, 5)]
    IN  IF Len(data) < 30 THEN <<>>
        ELSE tradeSteps(ctx, [holding |-> FALSE, buyIndex |-> -1, buyPrice |-> <<0, 1>>,
                              buyDate |-> <<>>, trades |-> <<>>], 21)

\* the variables of backtestMultiTrades when its for loop is over
afterTradeLoop(code, name, data) ==
    LET closes  == [k \in 1 .. Len(data) |-> data[k].close] \o <<>>
        volumes == [k \in 1 .. Len(data) |-> Int2Num(data[k].volume)] \o <<>>
        ctx     == [code |-> code, name |-> name, data |-> data, closes |-> closes,
                    ma10 |-> sma(closes, 10), vol5 |-> sma(volumes, 5)]
    IN  tradeLoop(ctx, [holding |-> FALSE, buyIndex |-> -1, buyPrice |-> <<0, 1>>,
                        buyDate |-> <<>>, trades |-> <<>>], 21)

\* a forced close that counts the bars held, the entry bar included
backtestMultiTradesBarsHeld(code, name, data) ==
    IF Len(data) < 30 THEN <<>>
    ELSE Only({IF st.holding /\ st.buyIndex >= 0
               THEN Append(st.trades,
                           tradeRecord(code, name, st.buyDate, data[Len(data)].date,
                                       st.buyPrice, data[Len(data)].close,
                                       Len(data) - st.buyIndex))
               ELSE st.trades : st \in {afterTradeLoop(code, name, data)}})

\* mutant of backtestMultiTrades: a position still open at the end is dropped
backtestMultiTradesNoClose(code, name, data) ==
    IF Len(data) < 30 THEN <<>> ELSE afterTradeLoop(code, name, data).trades

backtestMultiTrades(code, name, data) ==
    IF Len(data) < 30 THEN <<>>
    ELSE Only({IF st.holding /\ st.buyIndex >= 0
               THEN Append(st.trades,
                           tradeRecord(code, name, st.buyDate, data[Len(data)].date,
                                       st.buyPrice, data[Len(data)].close,
                                       (Len(data) - 1) - st.buyIndex))
               ELSE st.trades : st \in {afterTradeLoop(code, name, data)}})

\* result.reduce((sum, r) => sum + r.returnPct, 0)
RECURSIVE sumReturnPct(_)
sumReturnPct(result) ==
    IF result = <<>> THEN <<0, 1>>
    ELSE Add(sumReturnPct(SubSeq(result, 1, Len(result) - 1)), result[Len(result)].returnPct)

\* result.reduce((sum, r) => sum + r.holdDays, 0)
RECURSIVE sumHoldDays(_)
sumHoldDays(result) ==
    IF result = <<>> THEN 0
    ELSE sumHoldDays(SubSeq(result, 1, Len(result) - 1)) + result[Len(result)].holdDays

\* mutant of summaryOf: the average is taken over the days held
summaryOfAvgByDays(stock, result) ==
    LET totalReturnPct == sumReturnPct(result)
        tradeCount     == Len(result)
    IN  [code |-> stock.code, name |-> stock.name, exchange |-> stock.exchange,
         totalReturnPct |-> totalReturnPct,
         tradeCount |-> tradeCount,
         avgReturnPct |-> IF tradeCount > 0
                          THEN Div(totalReturnPct, Int2Num(sumHoldDays(result)))
                          ELSE <<0, 1>>,
         totalHoldDays |-> sumHoldDays(result)]

\* the entry main pushes to summary for one stock of selected
summaryOf(stock, result) ==
    LET totalReturnPct == sumReturnPct(result)
        tradeCount     == Len(result)
    IN  [code |-> stock.code, name |-> stock.name, exchange |-> stock.exchange,
         totalReturnPct |-> totalReturnPct,
         tradeCount |-> tradeCount,
         avgReturnPct |-> IF tradeCount > 0 THEN Div(totalReturnPct, Int2Num(tradeCount))
                          ELSE <<0, 1>>,
         totalHoldDays |-> sumHoldDays(result)]

\* ------------------------------------------------------------------------
\* One stock of selected.json backtested by main (specification SpecBacktest)
\* ------------------------------------------------------------------------
\* the k-th trading day of the series that are built here, 28 to a month
BarDate(k) == formatDate(20230000 + 100 * (((k - 1) \div 28) + 1) + ((k - 1) % 28) + 1)

\* the fields of a persisted bar that selection and backtest read
DailyBar(k, open, close, volume) ==
    [date |-> BarDate(k), open |-> open, close |-> close, volume |-> volume]

\* bars at 10.00 with volume 100 that every built series starts with
QuietBars == 25

TailKinds == {"High", "Dry", "Low"}

\* the bar that follows a series whose last close is prev: a new high on
\* ten times the volume (opened at prev, or 1.00 above its own close when
\* the highs of the series gap), a new high on the volume of a quiet day, or
\* a fall to 8.00 without a share traded
TailBar(kind, k, prev, gap) ==
    CASE kind = "High" -> DailyBar(k, IF gap THEN Int2Num(11 + (k - QuietBars)) ELSE prev,
                                   Int2Num(10 + (k - QuietBars)), 1000)
      [] kind = "Dry"  -> DailyBar(k, prev, Int2Num(10 + (k - QuietBars)), 100)
      [] kind = "Low"  -> DailyBar(k, prev, <<8, 1>>, 0)

RECURSIVE WithTail(_, _, _)
WithTail(bars, kinds, gap) ==
    IF kinds = <<>> THEN bars
    ELSE WithTail(Append(bars, TailBar(Head(kinds), Len(bars) + 1, bars[Len(bars)].close, gap)),
                  Tail(kinds), gap)

TailSeries(kinds, gap) ==
    WithTail([k \in 1 .. QuietBars |-> DailyBar(k, <<10, 1>>, <<10, 1>>, 100)], kinds, gap)

TestStock == [code |-> "600000", name |-> <<"A", "l", "f", "a">>, exchange |-> "sh"]

\* one pass of the loop of main over a stock whose series file holds data
BacktestStock(stock, data) ==
    /\ last.kind = "none"
    /\ \E result \in {backtestMultiTrades(stock.code, stock.name, data)} :
          /\ last' = [kind |-> "backtest", code |-> stock.code, data |-> data,
                      passes |-> loopPasses(stock.code, stock.name, data),
                      trades |-> result]
          /\ summary' = Append(summary, summaryOf(stock, result))
    /\ UNCHANGED <<disk, pc, adjustType, dividendArr, done, alt, order, selected, batch>>

NextBacktest ==
    /\ last.kind = "none"
    /\ \E kinds \in SeqsUpTo(TailKinds, MaxTail), gap \in BOOLEAN :
          BacktestStock(TestStock, TailSeries(kinds, gap))

SpecBacktest == Init /\ [][NextBacktest]_vars

\* a backtest of a series of at least 30 bars has run
Backtested == last.kind = "backtest" /\ Len(last.data) >= 30

\* the 1-based index of the bar of the backtested series dated date
barIndex(date) == CHOOSE k \in 1 .. Len(last.data) : last.data[k].date = date

\* C14: the trades come in the order of their entries, every trade is
\* entered no later than it is left, and a trade is entered on a bar
\* strictly after the bar on which the trade before it was left, so the
\* [buyDate, sellDate] intervals do not overlap.
TradesDoNotOverlap ==
    last.kind = "backtest"
    => /\ \A t \in 1 .. Len(last.trades) :
             /\ barIndex(last.trades[t].buyDate) <= barIndex(last.trades[t].sellDate)
             /\ localeCompare(last.trades[t].buyDate, last.trades[t].sellDate) <= 0
       /\ \A t \in 1 .. Len(last.trades) - 1 :
             /\ barIndex(last.trades[t + 1].buyDate) > barIndex(last.trades[t].sellDate)
             /\ localeCompare(last.trades[t].sellDate, last.trades[t + 1].buyDate) < 0

\* a series was traded three times
TradedThrice == Backtested /\ Len(last.trades) = 3

\* C15: a position that is open when the loop has passed the final bar
\* gets exactly one trade record, the last one, sold on the date and at the
\* close of the final bar.
ForcedClose ==
    Backtested
    => \A st \in {afterTradeLoop(last.code, TestStock.name, last.data)} :
          st.holding
          => LET n     == Len(last.trades)
                 final == last.data[Len(last.data)]
             IN  /\ n = Len(st.trades) + 1
                 /\ SubSeq(last.trades, 1, n - 1) = st.trades
                 /\ last.trades[n].buyDate = st.buyDate
                 /\ last.trades[n].buyPrice = st.buyPrice
                 /\ last.trades[n].sellDate = final.date
                 /\ last.trades[n].sellPrice = final.close
                 /\ Cardinality({t \in 1 .. n : last.trades[t].buyDate = st.buyDate}) = 1

\* a position entered before the final bar was closed on the final bar
\* although the close of that bar is not below its 10-day average
ClosedWithoutExitSignal ==
    /\ Backtested
    /\ Len(last.trades) >= 2
    /\ LET tr     == last.trades[Len(last.trades)]
           closes == [k \in 1 .. Len(last.data) |-> last.data[k].close]
       IN  /\ tr.sellDate = last.data[Len(last.data)].date
           /\ tr.holdDays >= 1
           /\ ~Gt(sma(closes, 10)[Len(last.data)], tr.sellPrice)

\* C17: the summary entry of a stock counts its trade records, sums their
\* returnPct and their holdDays, and its avgReturnPct times tradeCount is
\* totalReturnPct (avgReturnPct is 0 without trades).
SummaryConsistent ==
    last.kind = "backtest"
    => /\ Len(summary) = 1
       /\ LET e == summary[1]
              r == [t \in 1 .. Len(last.trades) |-> last.trades[t].returnPct]
              h == [t \in 1 .. Len(last.trades) |-> Int2Num(last.trades[t].holdDays)]
          IN  /\ e.tradeCount = Len(last.trades)
              /\ e.totalReturnPct = sumOf(r, 1, Len(r))
              /\ Int2Num(e.totalHoldDays) = sumOf(h, 1, Len(h))
              /\ e.tradeCount > 0 => Mul(e.avgReturnPct, Int2Num(e.tradeCount)) = e.totalReturnPct
              /\ e.tradeCount = 0 => e.avgReturnPct = <<0, 1>>

\* a summary entry was made of several trades of different returns
SummaryOfSeveral ==
    /\ Backtested
    /\ Len(summary) = 1
    /\ summary[1].tradeCount >= 2
    /\ summary[1].totalHoldDays > summary[1].tradeCount
    /\ summary[1].avgReturnPct # summary[1].totalReturnPct
    /\ summary[1].totalReturnPct # <<0, 1>>

\* the loop variables before the pass of the 1-based bar index i >= 21
passBefore(i) ==
    IF i = 21 THEN [holding |-> FALSE, buyIndex |-> -1, buyPrice |-> <<0, 1>>,
                    buyDate |-> <<>>, trades |-> <<>>]
    ELSE last.passes[i - 21]

\* the loop variables after the pass of the 1-based bar index i >= 21
passAfter(i) == last.passes[i - 20]

\* the close of bar i is above every close of the 20 bars before it
newHigh(i) == \A j \in i - 20 .. i - 1 : Gt(last.data[i].close, last.data[j].close)

\* five times the mean volume of the bars i - 4 .. i
volumeOfFive(i) ==
    last.data[i - 4].volume + last.data[i - 3].volume + last.data[i - 2].volume
    + last.data[i - 1].volume + last.data[i].volume

\* the volume of bar i is above 1.5 times a mean volume that is not 0
volumeSpike(i) == volumeOfFive(i) > 0 /\ 10 * last.data[i].volume > 3 * volumeOfFive(i)

belowMean(i) ==
    Gt(sumOf([k \in 1 .. Len(last.data) |-> last.data[k].close], i - 9, i),
       Mul(<<10, 1>>, last.data[i].close))

\* C22: a position is closed at the first bar after its entry bar whose
\* close is below the mean of the last 10 closes, never on the entry bar;
\* the trade record holds the close of that bar, the bars between entry and
\* exit as holdDays and the return in percent of the entry close; the bar
\* that closes a position opens none.
ExitRule ==
    Backtested
    => \A i \in 21 .. Len(last.data) :
          /\ ~passBefore(i).holding => passAfter(i).trades = passBefore(i).trades
          /\ (passBefore(i).holding /\ ~belowMean(i)) => passAfter(i) = passBefore(i)
          /\ (passBefore(i).holding /\ belowMean(i))
                => LET entry == barIndex(passBefore(i).buyDate)
                       n     == Len(passAfter(i).trades)
                       tr    == passAfter(i).trades[n]
                   IN  /\ ~passAfter(i).holding
                       /\ entry < i
                       /\ n = Len(passBefore(i).trades) + 1
                       /\ SubSeq(passAfter(i).trades, 1, n - 1) = passBefore(i).trades
                       /\ tr.buyDate = last.data[entry].date
                       /\ tr.buyPrice = last.data[entry].close
                       /\ tr.sellDate = last.data[i].date
                       /\ tr.sellPrice = last.data[i].close
                       /\ tr.holdDays = i - entry
                       /\ Mul(tr.returnPct, last.data[entry].close)
                             = Mul(<<100, 1>>, Sub(last.data[i].close, last.data[entry].close))
                       /\ last.trades[n] = tr

\* a position was held over a bar that did not close below the mean, was
\* closed on a later bar, and the bar after that one opened the next position
HeldThenClosedThenReentered ==
    /\ Backtested
    /\ \E i \in 22 .. Len(last.data) - 1 :
          /\ passBefore(i - 1).holding /\ passAfter(i - 1).holding
          /\ passBefore(i).holding /\ ~passAfter(i).holding
          /\ passAfter(i + 1).holding

\* C28: every trade record of a backtest has an entry bar that closed
\* strictly above its open.
BuysOnGainDay ==
    last.kind = "backtest"
    => \A t \in 1 .. Len(last.trades) :
          Gt(last.data[barIndex(last.trades[t].buyDate)].close,
             last.data[barIndex(last.trades[t].buyDate)].open)

\* the trades that the for loop pushed, closed by the moving-average exit
loopTrades == last.passes[Len(last.passes)].trades

\* C29: every trade record is entered no later than it is left and holds
\* as holdDays the bar index of its exit minus the bar index of its entry;
\* a trade closed by the moving-average exit has holdDays >= 1, and holdDays
\* is 0 only for the forced close of a position entered on the final bar,
\* with buyDate = sellDate and returnPct = 0.
HoldLength ==
    last.kind = "backtest"
    => \A t \in 1 .. Len(last.trades) :
          LET tr     == last.trades[t]
              entry  == barIndex(tr.buyDate)
              exit   == barIndex(tr.sellDate)
              forced == t > Len(loopTrades)
          IN  /\ localeCompare(tr.buyDate, tr.sellDate) <= 0
              /\ entry <= exit
              /\ tr.holdDays = exit - entry
              /\ ~forced => tr.holdDays >= 1
              /\ tr.holdDays = 0
                    => /\ forced
                       /\ entry = Len(last.data)
                       /\ tr.buyDate = tr.sellDate
                       /\ tr.returnPct = <<0, 1>>
              /\ (forced /\ entry = Len(last.data)) => tr.holdDays = 0

\* a trade closed by the moving-average exit, then a position entered on
\* the final bar and closed there
EnteredOnFinalBar ==
    /\ Backtested
    /\ Len(last.trades) >= 2
    /\ Len(loopTrades) = Len(last.trades) - 1
    /\ last.trades[1].holdDays >= 1
    /\ last.trades[Len(last.trades)].holdDays = 0
    /\ last.trades[Len(last.trades)].buyDate = last.data[Len(last.data)].date

\* ------------------------------------------------------------------------
\* select_stock: checkStockWithPrint
\* ------------------------------------------------------------------------
\* a >= b  (false when either side is NaN)
Ge(a, b) == ~IsNaN(a) /\ ~IsNaN(b) /\ ~Gt(b, a)

\* the closes and the volumes of a series as numbers
closesOf(stockData) == [k \in 1 .. Len(stockData) |-> stockData[k].close] \o <<>>

volumesOf(stockData) == [k \in 1 .. Len(stockData) |-> Int2Num(stockData[k].volume)] \o <<>>

\* ma(days): the closes of stockData.slice(-days) summed, over days
ma(stockData, days) ==
    Div(sumOf(closesOf(stockData), Max(1, Len(stockData) - days + 1), Len(stockData)),
        Int2Num(days))

\* stockName.includes('ST')
includesST(stockName) ==
    \E k \in 1 .. Len(stockName) - 1 : stockName[k] = "S" /\ stockName[k + 1] = "T"

\* the loop over the last five bars: maxConsecutive at its end; i is the
\* 1-based index of stockData[i - 1]
RECURSIVE maxConsecutiveFrom(_, _, _, _)
maxConsecutiveFrom(stockData, i, limitUpCount, maxConsecutive) ==
    IF i > Len(stockData) THEN maxConsecutive
    ELSE IF /\ i - 1 > 0
            /\ Ge(Div(Sub(stockData[i].close, stockData[i - 1].close), stockData[i - 1].close),
                  <<99, 1000>>)
         THEN maxConsecutiveFrom(stockData, i + 1, limitUpCount + 1,
                                 Max(maxConsecutive, limitUpCount + 1))
         ELSE maxConsecutiveFrom(stockData, i + 1, 0, maxConsecutive)

\* the tests of checkStockWithPrint that follow the test of the length
passesChecks(stockData, stockName) ==
    LET n       == Len(stockData)
        last_   == stockData[n]
        ma5     == ma(stockData, 5)
        ma10    == ma(stockData, 10)
        ma250   == ma(stockData, 250)
        avgVol5 == Div(sumOf(volumesOf(stockData), Max(n - 6, 0) + 1, n - 1), <<5, 1>>)
        high20  == mathMax(closesOf(stockData), Max(1, n - 19), n)
    IN  /\ Gt(last_.close, ma5) /\ Gt(last_.close, ma10)
        /\ Gt(ma5, stockData[n - 5].close) /\ Gt(ma10, stockData[n - 10].close)
        /\ ~Gt(ma250, last_.close)
        /\ Gt(Int2Num(last_.volume), Mul(avgVol5, <<3, 2>>))
        /\ Gt(last_.close, last_.open)
        /\ ~Gt(high20, last_.close)
        /\ ~(maxConsecutiveFrom(stockData, n - 4, 0, 0) >= 3)
        /\ ~includesST(stockName)

\* mutant of checkStockWithPrint: the series must hold 25 bars, not 250
checkStockWithPrint25(stockData, stockName) ==
    IF Len(stockData) < 25 THEN FALSE ELSE passesChecks(stockData, stockName)

\* the value the promise of checkStockWithPrint resolves to
checkStockWithPrint(stockData, stockName) ==
    IF Len(stockData) < 250 THEN FALSE ELSE passesChecks(stockData, stockName)

\* ------------------------------------------------------------------------
\* One series offered to checkStockWithPrint (specification SpecSelect)
\* ------------------------------------------------------------------------
LastKinds == {"Rise", "Limit", "Fall", "Doji"}

\* the bar that follows a series whose last close is prev: 5% up on ten
\* times the volume, 10% up on ten times the volume, 5% down, or unchanged
LastBar(kind, k, prev) ==
    CASE kind = "Rise"  -> DailyBar(k, prev, Mul(prev, <<21, 20>>), 1000)
      [] kind = "Limit" -> DailyBar(k, prev, Mul(prev, <<11, 10>>), 1000)
      [] kind = "Fall"  -> DailyBar(k, prev, Mul(prev, <<19, 20>>), 100)
      [] kind = "Doji"  -> DailyBar(k, prev, prev, 100)

RECURSIVE WithLast(_, _)
WithLast(bars, kinds) ==
    IF kinds = <<>> THEN bars
    ELSE WithLast(Append(bars, LastBar(Head(kinds), Len(bars) + 1, bars[Len(bars)].close)),
                  Tail(kinds))

\* the numbers of bars at 11.50 a series can start with
SelectPasts == {0, 83}

\* n bars: past bars at 11.50, quiet bars at 10.00, then the bars of kinds
SelectSeries(n, past, kinds) ==
    IF n = 0 THEN <<>>
    ELSE WithLast([k \in 1 .. n - Len(kinds) |->
                      IF k <= past THEN DailyBar(k, <<23, 2>>, <<23, 2>>, 100)
                      ELSE DailyBar(k, <<10, 1>>, <<10, 1>>, 100)], kinds)

SelectLengths == {0, 1, 30, 249} \cup (250 .. 249 + MaxBeyond)

StockNames == {<<"A", "l", "f", "a">>, <<"*", "S", "T", "A">>}

\* checkStockWithPrint(stockData, stockName) is called and resolves
SelectCall(stockData, stockName) ==
    /\ last.kind = "none"
    /\ last' = [kind |-> "select", name |-> stockName, data |-> stockData,
                result |-> checkStockWithPrint(stockData, stockName)]
    /\ UNCHANGED <<disk, pc, adjustType, dividendArr, done, alt, order, selected, summary,
                   batch>>

NextSelect ==
    /\ last.kind = "none"
    /\ \E n \in SelectLengths, past \in SelectPasts, kinds \in SeqsUpTo(LastKinds, MaxLastBars),
          name \in StockNames :
          /\ Len(kinds) < n \/ (n = 0 /\ kinds = <<>>)
          /\ SelectCall(SelectSeries(n, past, kinds), name)

SpecSelect == Init /\ [][NextSelect]_vars

\* C16: a series of fewer than 250 bars is rejected, whatever its bars and
\* the name of the instrument.
ShortSeriesRejected ==
    (last.kind = "select" /\ Len(last.data) < 250) => last.result = FALSE

\* a series of 249 bars was rejected that is selected once its first bar is
\* there twice
RejectedForOneBar ==
    /\ last.kind = "select"
    /\ Len(last.data) = 249
    /\ last.result = FALSE
    /\ checkStockWithPrint(<<last.data[1]>> \o last.data, last.name)

\* C25: a series is selected only if its last close is strictly above the
\* mean of its last 250 closes; with the last close equal to that mean the
\* series is rejected.
AboveYearMean ==
    (last.kind = "select" /\ last.result)
    => LET n == Len(last.data)
       IN  /\ n >= 250
           /\ Gt(Mul(<<250, 1>>, last.data[n].close),
                 sumOf([k \in 1 .. n |-> last.data[k].close], n - 249, n))

\* ------------------------------------------------------------------------
\* The output file of a source file (Spec)
\* ------------------------------------------------------------------------
\* path.join(outputDir, `${code}.json`), code = symbolRaw.slice(2): the key
\* of the output file in disk
outputPath(exchange, code) == code

\* C18: a pass that writes its output file never writes the output file of
\* another source file of the run, so the same code on two exchanges is
\* never merged into one persisted series.
SeriesKeptApart ==
    (pc = "loop" /\ last.kind = "convert" /\ ~last.threw)
    => \A k \in 1 .. Len(done) - 1 :
          done[k] # done[Len(done)]
          => outputPath(done[k][1], done[k][2])
                # outputPath(done[Len(done)][1], done[Len(done)][2])

\* ------------------------------------------------------------------------
\* A run over files of which some fail (specification SpecBatch)
\* ------------------------------------------------------------------------
BatchCodes == {"600000", OtherCode}

EmptyBatchDir == [c \in BatchCodes |-> [exists |-> FALSE, data |-> <<>>]]

\* the source files of the run: two that decode, one cut short in its record
BatchFiles ==
    {[recs |-> <<RawRec(D1, FlatTen)>>, trunc |-> 0],
     [recs |-> <<RawRec(D2, FlatLow)>>, trunc |-> 0],
     [recs |-> <<RawRec(D2, FlatLow)>>, trunc |-> 8]}

\* an element of files, with its content and whether its output file can
\* be written
BatchEntries ==
    {[exchange |-> e, code |-> c, file |-> f, writeFails |-> w] :
        e \in InputDirs, c \in BatchCodes, f \in BatchFiles, w \in BOOLEAN}

\* files as the three readdir calls fill it: every source file once, the
\* directories in the order of subDirs
BatchPlans ==
    {p \in SeqsUpTo(BatchEntries, MaxBatch) :
        /\ p # <<>>
        /\ \A k \in 1 .. Len(p) : \A m \in k + 1 .. Len(p) :
              /\ <<p[k].exchange, p[k].code>> # <<p[m].exchange, p[m].code>>
              /\ DirIndex(p[k].exchange) <= DirIndex(p[m].exchange)}

\* the try block of one loop pass: readDayFile or writeFile throws, or the
\* merged series is written
passResult(entry, divs, type) ==
    LET r == readDayFile(BufOf(entry.file), divs, entry.code, type)
    IN  IF r.threw \/ entry.writeFails THEN [threw |-> TRUE, records |-> <<>>] ELSE r

\* mutant of afterCatch: the error leaves the loop
afterCatchRethrown(threw) == IF threw THEN "idle" ELSE "loop"

\* pc after a loop pass: the catch block logs the error and the loop goes on
afterCatch(threw) == "loop"

\* outputDir after a run over the files of plan that do not fail
RECURSIVE runWithoutFailing(_, _, _, _)
runWithoutFailing(dir, plan, divs, type) ==
    IF plan = <<>> THEN dir
    ELSE LET r == passResult(Head(plan), divs, type)
         IN  runWithoutFailing(IF r.threw THEN dir
                               ELSE [dir EXCEPT ![Head(plan).code] =
                                        mergeAndWrite(dir[Head(plan).code], r.records)],
                               Tail(plan), divs, type)

InitBatch ==
    /\ disk = EmptyBatchDir
    /\ pc = "idle"
    /\ adjustType = "none"
    /\ dividendArr = <<>>
    /\ done = <<>>
    /\ last = NoCall
    /\ alt = EmptyBatchDir
    /\ order = NoOrder
    /\ selected = [exists |-> FALSE, list |-> <<>>]
    /\ summary = <<>>
    /\ batch = <<>>

\* convertAllDayFiles up to its loop, files being plan; alt is what a run
\* without the failing files leaves
BatchStart(plan, type, divs) ==
    /\ pc = "idle"
    /\ batch = <<>>
    /\ batch' = plan
    /\ adjustType' = type
    /\ dividendArr' = divs
    /\ pc' = "loop"
    /\ alt' = runWithoutFailing(alt, plan, divs, type)
    /\ UNCHANGED <<disk, done, last, order, selected, summary>>

\* one pass of the for loop over files[i]
BatchPass ==
    /\ pc = "loop"
    /\ Len(done) < Len(batch)
    /\ LET entry == batch[Len(done) + 1]
       IN  \E r \in {passResult(entry, dividendArr, adjustType)} :
              /\ disk' = afterPass(disk, entry.code, r)
              /\ last' = [kind |-> "convert", code |-> entry.code, file |-> entry.file,
                          threw |-> r.threw, newData |-> r.records]
              /\ done' = Append(done, <<entry.exchange, entry.code>>)
              /\ pc' = afterCatch(r.threw)
    /\ UNCHANGED <<adjustType, dividendArr, alt, order, selected, summary, batch>>

\* the loop is over and convertAllDayFiles returns
BatchFinish ==
    /\ pc = "loop"
    /\ Len(done) = Len(batch)
    /\ pc' = "idle"
    /\ UNCHANGED <<disk, adjustType, dividendArr, done, last, alt, order, selected, summary,
                   batch>>

NextBatch ==
    \/ /\ pc = "idle" /\ batch = <<>>
       /\ \E plan \in BatchPlans, type \in {"none", "qfq"}, divs \in IngestDividends :
             BatchStart(plan, type, divs)
    \/ BatchPass
    \/ BatchFinish

SpecBatch == InitBatch /\ [][NextBatch]_vars

\* the run over batch has returned, or was left by an error
BatchOver == pc = "idle" /\ batch # <<>>

\* the 1-based indexes of the files of the run whose pass failed
failedPasses ==
    {k \in 1 .. Len(batch) : passResult(batch[k], dividendArr, adjustType).threw}

\* C19: when the run is over every file of the batch has had its pass, and
\* the series of every instrument but the failing ones is as a run without
\* the failing files leaves it.
FailuresIsolated ==
    BatchOver
    => /\ Len(done) = Len(batch)
       /\ \A c \in BatchCodes :
             (\A k \in failedPasses : batch[k].code # c) => disk[c] = alt[c]

\* the pass of the first file failed and the pass of the next file, of
\* another instrument, wrote its series
FailedThenWritten ==
    /\ BatchOver
    /\ Len(batch) >= 2
    /\ 1 \in failedPasses
    /\ 2 \notin failedPasses
    /\ batch[1].code # batch[2].code
    /\ disk[batch[2].code].exists
    /\ Len(disk[batch[2].code].data) > 0

\* readDayFile failed in the pass that the step from this state takes
readFailsNext ==
    /\ pc = "loop"
    /\ Len(done) < Len(batch)
    /\ readDayFile(BufOf(batch[Len(done) + 1].file), dividendArr,
                   batch[Len(done) + 1].code, adjustType).threw

\* C30: a loop pass whose readDayFile call fails leaves the output
\* directory as it was: the series of the instrument is neither written nor
\* cut.
FailedPassWritesNothing ==
    [][(readFailsNext /\ Len(done') = Len(done) + 1) => disk' = disk]_vars

\* the pass of a file of an instrument failed after an earlier pass of the
\* run had stored bars of the same instrument, which are still there
FailedOverStoredSeries ==
    /\ pc = "loop"
    /\ Len(done) = 2
    /\ batch[1].code = batch[2].code
    /\ ~passResult(batch[1], dividendArr, adjustType).threw
    /\ last.kind = "convert" /\ last.code = batch[2].code /\ last.threw
    /\ readDayFile(BufOf(batch[2].file), dividendArr, batch[2].code, adjustType).threw
    /\ disk[batch[2].code].exists
    /\ Len(disk[batch[2].code].data) > 0

\* ------------------------------------------------------------------------
\* npm run all: convert, then select, then backtest (specification
\* SpecPipeline).  disk maps the base name of a file of json_data to the file
\* ------------------------------------------------------------------------
MaxIndex == 2

\* the length checkStockWithPrint asks of a series
MinBars == 250

\* the raw date of the k-th trading day, 28 to a month
RawDay(k) == 20230000 + 100 * (((k - 1) \div 28) + 1) + ((k - 1) % 28) + 1

\* a source file of MinBars records: flat at 10.00 and, on the last day, a
\* bar that closes 5% up on a hundred times the volume
BreakoutFile ==
    [recs  |-> [k \in 1 .. MinBars |->
                   IF k < MinBars THEN RawRec(RawDay(k), FlatTen)
                   ELSE RawRec(RawDay(k), <<1000, 1050, 1000, 1050, 1050000, 1000>>)] \o <<>>,
     trunc |-> 0]

ShortFile == [recs |-> <<RawRec(D1, FlatTen)>>, trunc |-> 0]

\* <<exchange, code, file>>: the .day files the input directories can hold
PipelineSources ==
    {<<"sh", "600000", BreakoutFile>>, <<"sz", OtherCode, BreakoutFile>>,
     <<"sz", OtherCode, ShortFile>>}

\* the entries stock_list.json can hold
PipelineStocks ==
    {[code |-> "600000", name |-> <<"A", "l", "f", "a">>, exchange |-> "sh"],
     [code |-> "600000", name |-> <<"*", "S", "T", "A">>, exchange |-> "sh"],
     [code |-> OtherCode, name |-> <<"B", "e", "t", "a">>, exchange |-> "sz"],
     [code |-> OtherCode, name |-> <<"B", "e", "t", "a">>, exchange |-> "sh"]}

\* path.join(jsonDir, `${code}.json`) of scanAndSelectStocks, as a base name
selectFile(code) == code

\* path.join(jsonDir, `${exchange}${code}.json`) of readStockHistory, as a base name
historyFile(exchange, code) == exchange \o code

\* fs.readFile of the file called name in dir resolves
readable(dir, name) == name \in DOMAIN dir /\ dir[name].exists

\* the for loop of scanAndSelectStocks from index i on: sel is the array
\* selected, whose codes are the set selectedSet
RECURSIVE scanLoop(_, _, _, _)
scanLoop(dir, indexArr, i, sel) ==
    IF i > Len(indexArr) THEN sel
    ELSE LET stock == indexArr[i]
             known == \E k \in 1 .. Len(sel) : sel[k].code = stock.code
             pass  == /\ readable(dir, selectFile(stock.code))
                      /\ checkStockWithPrint(dir[selectFile(stock.code)].data, stock.name)
         IN  scanLoop(dir, indexArr, i + 1,
                      IF pass /\ ~known THEN Append(sel, stock) ELSE sel)

\* the array scanAndSelectStocks writes to selected.json
scanAndSelectStocks(dir, indexArr) == scanLoop(dir, indexArr, 1, <<>>)

\* readStockHistory(jsonDir, code, exchange): threw tells that the promise rejects
readStockHistory(dir, code, exchange) ==
    IF readable(dir, historyFile(exchange, code))
    THEN [threw |-> FALSE, data |-> dir[historyFile(exchange, code)].data]
    ELSE [threw |-> TRUE, data |-> <<>>]

\* the for loop of main over selected from index i on: sum is the array summary
RECURSIVE backtestLoop(_, _, _, _)
backtestLoop(dir, sel, i, sum) ==
    IF i > Len(sel) THEN sum
    ELSE LET stock == sel[i]
             r     == readStockHistory(dir, stock.code, stock.exchange)
         IN  backtestLoop(dir, sel, i + 1,
                 IF r.threw THEN sum
                 ELSE Append(sum, summaryOf(stock,
                          backtestMultiTrades(stock.code, stock.name, r.data))))

InitPipeline ==
    /\ disk = EmptyBatchDir
    /\ pc = "idle"
    /\ adjustType = "none"
    /\ dividendArr = <<>>
    /\ done = <<>>
    /\ last = NoCall
    /\ alt = EmptyBatchDir
    /\ order = NoOrder
    /\ selected = [exists |-> FALSE, list |-> <<>>]
    /\ summary = <<>>
    /\ batch = <<>>

\* npm run convert: convertAllDayFiles is started with --qfq and no dividend data
PipelineConvert == StartRun("qfq", <<>>, TRUE)

\* npm run select, once the loop of convert has ended: scanAndSelectStocks
\* over the index file and the directory convert wrote
PipelineSelect(indexArr) ==
    /\ pc = "loop"
    /\ pc' = "selected"
    /\ selected' = [exists |-> TRUE, list |-> scanAndSelectStocks(disk, indexArr)]
    /\ last' = [kind |-> "scan", indexArr |-> indexArr]
    /\ UNCHANGED <<disk, adjustType, dividendArr, done, alt, order, summary, batch>>

\* npm run backtest: main reads selected.json and writes the summary
PipelineBacktest ==
    /\ pc = "selected"
    /\ pc' = "backtested"
    /\ summary' = backtestLoop(disk, IF selected.exists THEN selected.list ELSE <<>>, 1, <<>>)
    /\ UNCHANGED <<disk, adjustType, dividendArr, done, last, alt, order, selected, batch>>

NextPipeline ==
    \/ PipelineConvert
    \/ /\ pc = "loop"
       /\ \E src \in PipelineSources : ConvertFile(src[1], src[2], src[3])
    \/ /\ pc = "loop"
       /\ \E indexArr \in SeqsUpTo(PipelineStocks, MaxIndex) : PipelineSelect(indexArr)
    \/ PipelineBacktest

SpecPipeline == InitPipeline /\ [][NextPipeline]_vars

\* the instruments of the candidate list whose series convert persisted
RECURSIVE persistedOf(_, _)
persistedOf(dir, sel) ==
    IF sel = <<>> THEN <<>>
    ELSE IF readable(dir, outputPath(Head(sel).exchange, Head(sel).code))
         THEN <<Head(sel)>> \o persistedOf(dir, Tail(sel))
         ELSE persistedOf(dir, Tail(sel))

\* C20: after convert, select and backtest have run, the summary holds one
\* entry for every instrument of the candidate list whose series convert
\* persisted, and the entries stand in the order of the candidate list.
SummaryComplete ==
    pc = "backtested"
    => LET expected == persistedOf(disk, selected.list)
       IN  /\ Len(summary) = Len(expected)
           /\ \A k \in 1 .. Len(expected) :
                 /\ summary[k].code = expected[k].code
                 /\ summary[k].exchange = expected[k].exchange

====
